---- MODULE Spec2Model ----
(***************************************************************************)
(* A model of the Overmortal progression-log pipeline:                     *)
(*   - LogParser.parse, _parse_block and the header and body extractors   *)
(*     (log_parser.py), the JSON export and its reload,                    *)
(*   - compute_analytics (dashboard.py),                                   *)
(*   - ProgressionAnalyzer.get_efficiency_metrics (progression_analyzer).  *)
(*                                                                         *)
(* Text is modelled by the fields the regular expressions extract from it: *)
(* a block is the record of what its header holds (month name, day digits, *)
(* time digits and marker, realm and phase words, percent group), the     *)
(* tokens that follow them on the header line and the lines below it, each *)
(* a sequence of tokens between counted blanks.  The body patterns are     *)
(* matched token by token.  Words that the code normalises are sequences   *)
(* of characters.  Percents are                                            *)
(* integers in hundredths of a percent, elapsed time is in minutes, and a  *)
(* value rounded to k decimals is the integer number of 10^-k units.       *)
(***************************************************************************)
EXTENDS Integers, Sequences, FiniteSets, TLC

VARIABLES
    content,       \* the log text: [year_line, blocks] (raw_blocks after re.split)
    pc,            \* position of the run: "start", "loop", "done", "raised", ...
    base_year,     \* LogParser.base_year
    current_year,  \* parse(): current_year
    prev_month,    \* parse(): prev_month
    idx,           \* parse(): number of raw blocks consumed by the for loop
    entries,       \* LogParser.entries
    block_entry,   \* _parse_block(): entry, the entry under construction
    loaded,        \* ProgressionAnalyzer.data
    analytics,     \* result of compute_analytics(entries)
    metrics,       \* result of ProgressionAnalyzer.get_efficiency_metrics()
    host           \* the dashboard host: [log, dashboard, req] (files and requests)

vars == <<content, pc, base_year, current_year, prev_month, idx, entries,
          block_entry, loaded, analytics, metrics, host>>

\* An optional value is a sequence of length at most one: None is the empty
\* one, Some(v) holds v.  A call that raises yields the empty sequence too.
None == <<>>
Some(v) == <<v>>
Val(o) == o[1]
ValueError == <<>>
NotRun == [not_run |-> TRUE]
NotServing == [not_serving |-> TRUE]

-----------------------------------------------------------------------------
(* Bounds of the model *)

MaxBlocks == 4      \* entry blocks in a log text
MaxEntries == 3     \* entries handed to the analytics
MaxRerunBlocks == 2 \* entry blocks in a log text that is parsed twice
MaxLines == 2       \* lines below the header of a block
MaxSegments == 3    \* segments of a text that is split into blocks
MaxRequests == 2    \* add-entry requests handled at once

-----------------------------------------------------------------------------
(* Program constants *)

DEFAULT_BASE_YEAR == 2025
MINYEAR == 1
MAXYEAR == 9999
MaxTwoDigits == 99      \* largest value of a \d{1,2} or \d{2} group
ROLLOVER_FROM == 10     \* prev_month >= 10
ROLLOVER_TO == 2        \* month <= 2
CLAMP_DAY == 28         \* min(day, 28)
NOON == 12              \* hour, minute = 12, 0
BAD_REQUEST == 400
COMPLETE_PCT == 9900    \* ep >= 99, in hundredths

STAGE_ORDER ==
    << "Celestial Early", "Celestial Middle", "Celestial Late",
       "Eternal Early", "Eternal Middle", "Eternal Late" >>

-----------------------------------------------------------------------------
(* datetime: the calendar of Python's datetime class *)

IsLeap(y) == (y % 4 = 0) /\ ((y % 100 # 0) \/ (y % 400 = 0))

DaysInMonth(y, m) ==
    IF m = 2 THEN (IF IsLeap(y) THEN 29 ELSE 28)
    ELSE IF m \in {4, 6, 9, 11} THEN 30 ELSE 31

\* datetime(year, month, day, hour, minute): the value, or ValueError
datetime(y, m, d, h, mi) ==
    IF /\ y \in MINYEAR..MAXYEAR
       /\ m \in 1..12
       /\ d \in 1..DaysInMonth(y, m)
       /\ h \in 0..23
       /\ mi \in 0..59
    THEN Some([year |-> y, month |-> m, day |-> d, hour |-> h, minute |-> mi])
    ELSE ValueError

\* date.replace(year=y): the value, or ValueError
ReplaceYear(dt, y) == datetime(y, dt.month, dt.day, dt.hour, dt.minute)

\* days before 1 January of year y (proleptic Gregorian)
DaysBeforeYear(y) ==
    365 * (y - 1) + ((y - 1) \div 4) - ((y - 1) \div 100) + ((y - 1) \div 400)

RECURSIVE DaysBeforeMonth(_, _)
DaysBeforeMonth(y, m) ==
    IF m = 1 THEN 0 ELSE DaysBeforeMonth(y, m - 1) + DaysInMonth(y, m - 1)

Ordinal(dt) == DaysBeforeYear(dt.year) + DaysBeforeMonth(dt.year, dt.month) + dt.day

\* date.fromordinal: the calendar date of day n (1 is 1 January of year 1)
FromOrdinal(n) ==
    LET y == CHOOSE c \in (n \div 366 + 1)..(n \div 365 + 1) :
                 DaysBeforeYear(c) < n /\ n <= DaysBeforeYear(c + 1)
        k == n - DaysBeforeYear(y)
        m == CHOOSE c \in 1..12 :
                 DaysBeforeMonth(y, c) < k /\ k <= DaysBeforeMonth(y, c) + DaysInMonth(y, c)
    IN  [year |-> y, month |-> m, day |-> k - DaysBeforeMonth(y, m)]

\* date + timedelta beyond year 9999 or before year 1
OverflowError == [overflow |-> TRUE]

\* (b - a) in minutes: timedelta.total_seconds() / 60
MinutesBetween(a, b) ==
    (Ordinal(b) - Ordinal(a)) * 1440
      + (b.hour * 60 + b.minute) - (a.hour * 60 + a.minute)

\* (b - a).days: timedelta normalises to whole days, rounding down
DaysBetween(a, b) == MinutesBetween(a, b) \div 1440

\* date.isoformat(): the calendar date only, which reads back as midnight
isoformat_DateOnly(dt) == <<dt.year, dt.month, dt.day, 0, 0>>

\* datetime.isoformat(): zero-padded fields, most significant first
isoformat(dt) == <<dt.year, dt.month, dt.day, dt.hour, dt.minute>>

fromisoformat(s) ==
    [year |-> s[1], month |-> s[2], day |-> s[3], hour |-> s[4], minute |-> s[5]]

\* string comparison of two ISO texts: lexicographic on the padded fields
RECURSIVE LexLess(_, _, _)
LexLess(a, b, k) ==
    IF k > Len(a) THEN FALSE
    ELSE IF a[k] < b[k] THEN TRUE
    ELSE IF a[k] > b[k] THEN FALSE
    ELSE LexLess(a, b, k + 1)

IsoLess(a, b) == LexLess(a, b, 1)

-----------------------------------------------------------------------------
(* Characters and words *)

UpperToLower ==
    ("A" :> "a") @@ ("C" :> "c") @@ ("D" :> "d") @@ ("E" :> "e") @@
    ("I" :> "i") @@ ("L" :> "l") @@ ("M" :> "m") @@ ("N" :> "n") @@
    ("R" :> "r") @@ ("S" :> "s") @@ ("T" :> "t") @@ ("Y" :> "y")

LowerToUpper ==
    ("a" :> "A") @@ ("c" :> "C") @@ ("d" :> "D") @@ ("e" :> "E") @@
    ("i" :> "I") @@ ("l" :> "L") @@ ("m" :> "M") @@ ("n" :> "N") @@
    ("r" :> "R") @@ ("s" :> "S") @@ ("t" :> "T") @@ ("y" :> "Y")

LowerChar(c) == IF c \in DOMAIN UpperToLower THEN UpperToLower[c] ELSE c
UpperChar(c) == IF c \in DOMAIN LowerToUpper THEN LowerToUpper[c] ELSE c

\* str.lower()
lower(w) == [k \in 1..Len(w) |-> LowerChar(w[k])]

\* str.capitalize(): first character upper case, the rest lower case
capitalize(w) ==
    [k \in 1..Len(w) |-> IF k = 1 THEN UpperChar(w[k]) ELSE LowerChar(w[k])]

\* \w
IsWordChar(c) == c \in (DOMAIN UpperToLower) \cup (DOMAIN LowerToUpper)

\* str.startswith
startswith(w, p) == Len(w) >= Len(p) /\ SubSeq(w, 1, Len(p)) = p

\* the text of a sequence of characters
RECURSIVE Text(_)
Text(w) == IF w = <<>> THEN "" ELSE Head(w) \o Text(Tail(w))

Suffix(w, k) == SubSeq(w, k, Len(w))

\* the 12-hour display of an hour of the day (api_add_entry)
Hour12(h) == IF h % 12 = 0 THEN 12 ELSE h % 12
Marker(h) == IF h < 12 THEN "AM" ELSE "PM"

-----------------------------------------------------------------------------
(* Header field extractors *)

\* To24Hour without the branch that turns 12 AM into hour 0
To24Hour_NoMidnight(h, ampm) ==
    IF ampm = "PM" /\ h # 12 THEN h + 12 ELSE h

\* the AM/PM arithmetic of _parse_date
To24Hour(h, ampm) ==
    IF ampm = "PM" /\ h # 12 THEN h + 12
    ELSE IF ampm = "AM" /\ h = 12 THEN 0
    ELSE h

Min(a, b) == IF a < b THEN a ELSE b
Max(a, b) == IF a > b THEN a ELSE b

\* BuildDate without the second attempt on min(day, 28)
BuildDate_NoClamp(year, month, day, hour, minute) ==
    LET first == datetime(year, month, day, hour, minute)
    IN  IF first # ValueError THEN first ELSE None

\* the two constructor attempts of _parse_date
BuildDate(year, month, day, hour, minute) ==
    LET first == datetime(year, month, day, hour, minute)
        second == datetime(year, month, Min(day, CLAMP_DAY), hour, minute)
    IN  IF first # ValueError THEN first
        ELSE IF second # ValueError THEN second
        ELSE None

_parse_date(header, year) ==
    IF ~header.has_day THEN None
    ELSE LET hour == IF header.time = None THEN NOON
                     ELSE To24Hour(Val(header.time).h, Val(header.time).ampm)
             minute == IF header.time = None THEN 0 ELSE Val(header.time).mm
         IN  BuildDate(year, header.month, header.day, hour, minute)

\* the display time "H:MM AM|PM": its three groups
_parse_time(header) == header.time

\* (Celesti\w+|Eternal) matched case-insensitively at position k of the
\* realm word and running to the whitespace that ends the word
RealmMatchesAt(w, k) ==
    LET g == lower(Suffix(w, k))
    IN  \/ /\ startswith(g, <<"c", "e", "l", "e", "s", "t", "i">>)
           /\ Len(g) >= 8
           /\ \A j \in 8..Len(g) : IsWordChar(g[j])
        \/ g = <<"e", "t", "e", "r", "n", "a", "l">>

PhaseWords ==
    { <<"e", "a", "r", "l", "y">>, <<"m", "i", "d", "d", "l", "e">>,
      <<"l", "a", "t", "e">> }

\* (Early|Middle|Late) matched case-insensitively at the start of the phase
\* word: the matched text as written, or None
PhaseGroup(w) ==
    IF \E p \in PhaseWords : startswith(lower(w), p)
    THEN LET p == CHOOSE q \in PhaseWords : startswith(lower(w), q)
         IN  Some(SubSeq(w, 1, Len(p)))
    ELSE None

\* _parse_stage storing the matched words as they were written
_parse_stage_Raw(header) ==
    LET starts == {k \in 1..Len(header.realm) : RealmMatchesAt(header.realm, k)}
        g2 == PhaseGroup(header.phase)
    IN  IF starts # {} /\ g2 # None
        THEN LET k == CHOOSE i \in starts : \A j \in starts : i <= j
             IN  Some(Text(Suffix(header.realm, k)) \o " " \o Text(Val(g2)))
        ELSE None

_parse_stage(header) ==
    LET starts == {k \in 1..Len(header.realm) : RealmMatchesAt(header.realm, k)}
        g2 == PhaseGroup(header.phase)
    IN  IF starts # {} /\ g2 # None
        THEN LET k == CHOOSE i \in starts : \A j \in starts : i <= j
                 g1 == Suffix(header.realm, k)
                 realm == IF startswith(lower(g1), <<"c", "e", "l", "e", "s", "t", "i">>)
                          THEN "Celestial" ELSE "Eternal"
             IN  Some(realm \o " " \o Text(capitalize(Val(g2))))
        ELSE None

\* float() of the digits of the (N%) group, in hundredths of a percent
_parse_stage_percent(header) == header.pct

-----------------------------------------------------------------------------
(* Text below the header fields *)

\* A token is a maximal run of non-blank characters, held as what the
\* patterns read from it: a word, "G<N>", "<X>%" (X in hundredths), a whole
\* number "N", or a decimal "N.DDD" (in thousandths).
Word(s) == [k |-> "word", s |-> s, n |-> 0]
Grade(n) == [k |-> "G", s |-> "G", n |-> n]
Percent(x) == [k |-> "%", s |-> "%", n |-> x]
Number(n) == [k |-> "int", s |-> "", n |-> n]
Decimal(n) == [k |-> "dec", s |-> ".", n |-> n]

\* A line is its tokens, one blank apart, with the blanks before and after
Line(lead, toks, trail) == [lead |-> lead, toks |-> toks, trail |-> trail]

\* str.strip() of a line
strip(line) == Line(0, line.toks, 0)

RECURSIVE Flatten(_)
Flatten(ls) == IF ls = <<>> THEN <<>> ELSE Head(ls).toks \o Flatten(Tail(ls))

\* block.strip().split('\n'), lines[1:]: the text ends at its last non-blank
\* character
RECURSIVE BodyLines(_)
BodyLines(ls) ==
    IF ls = <<>> THEN <<>>
    ELSE LET last == ls[Len(ls)]
         IN  IF last.toks = <<>> THEN BodyLines(SubSeq(ls, 1, Len(ls) - 1))
             ELSE SubSeq(ls, 1, Len(ls) - 1) \o <<Line(last.lead, last.toks, 0)>>

\* '\n'.join(lines): the tokens of the whole block that follow the header
\* fields (the fields themselves match none of the body patterns)
all_text(block) == block.tail \o Flatten(BodyLines(block.lines))

\* '\n'.join(lines[1:])
body_text(block) == Flatten(BodyLines(block.lines))

\* the alternatives of the patterns, matched with re.IGNORECASE
Slot ==
    [bt |-> {"bt", "BT", "breakthrough", "Breakthrough"},
     to |-> {"to", "To"},
     at |-> {"at", "At"},
     and |-> {"and"},
     currently |-> {"currently", "Currently"},
     realm |-> {"Celestial", "celestial", "Eternal", "eternal"},
     phase |-> {"Early", "early", "Middle", "Late"},
     years |-> {"Yr", "Yrs", "Ys", "Year", "Years", "yrs"},
     hours |-> {"Hr", "Hrs", "Hour", "Hours", "hrs"},
     minutes |-> {"Min", "Minute", "Minutes", "MIin", "MIn", "min"},
     predicted |-> {"(Predicted)", "predicted", "ChatGPT", "(chatgpt)"}]

\* words with characters outside \w
NotWords == {"(Predicted)", "(chatgpt)", "-"}

\* a token fits one element of a pattern
Fits(t, slot) ==
    CASE slot = "G" -> t.k = "G"                              \* G(\d+)
      [] slot = "%" -> t.k = "%"                              \* (\d+\.?\d*)%
      [] slot = "w" -> \/ t.k \in {"G", "int"}               \* \w+
                       \/ t.k = "word" /\ t.s \notin NotWords
      [] slot = "int" -> t.k = "int"                          \* \s+(\d+)\s*
      [] slot = "digits" -> t.k \in {"int", "dec", "G"}       \* (\d+) at its end
      [] slot = "any" -> TRUE                                 \* after \s+
      [] OTHER -> t.k = "word" /\ t.s \in Slot[slot]

\* the pattern matches the tokens starting at position p
MatchesAt(text, p, pat) ==
    /\ p + Len(pat) - 1 <= Len(text)
    /\ \A j \in 1..Len(pat) : Fits(text[p + j - 1], pat[j])

Matches(text, pat) == {p \in 1..Len(text) : MatchesAt(text, p, pat)}

\* re.search: the leftmost match, or None
search(pat, text) ==
    LET ps == Matches(text, pat)
    IN  IF ps = {} THEN None ELSE Some(CHOOSE p \in ps : \A q \in ps : p <= q)

\* re.findall(...)[-1]: the last match (matches of one pattern do not overlap)
LastMatch(pat, text) ==
    LET ps == Matches(text, pat)
    IN  IF ps = {} THEN None ELSE Some(CHOOSE p \in ps : \A q \in ps : p >= q)

\* the token matched by the first element `slot` of pat, for a match at p
Group(text, p, pat, slot) ==
    text[p + (CHOOSE j \in 1..Len(pat) : pat[j] = slot /\ \A i \in 1..(j - 1) : pat[i] # slot) - 1]

\* ProgressionEntry.__init__ (raw_text, which to_dict does not export, is
\* left out)
ProgressionEntry ==
    [date |-> None, time |-> None, stage_name |-> None, stage_percent |-> None,
     g_level |-> None, g_percent |-> None, years_to_next |-> None,
     hours_to_next |-> None, minutes_to_next |-> None, next_milestone |-> None,
     is_breakthrough |-> FALSE, notes |-> <<>>, is_predicted |-> FALSE]

\* the five structured rules of _parse_breakthrough, in the order of the list
BreakthroughPatterns ==
    << <<"bt", "to", "realm", "w", "G", "at", "%">>,
       <<"bt", "to", "G", "at", "%">>,
       <<"bt", "to", "realm", "w", "G">>,
       <<"bt", "to", "G">>,
       <<"bt", "to", "realm", "phase">> >>

\* (?:bt|breakthrough)\s+to\s+ : blanks after "to" exist only before more text
CatchAll == <<"bt", "to", "any">>

HasGroup(pat, slot) == \E j \in 1..Len(pat) : pat[j] = slot

\* the for loop of lines 234-243: the first pattern of the list that matches
\* anywhere, or 0
RECURSIVE FirstMatching(_, _)
FirstMatching(text, i) ==
    IF i > Len(BreakthroughPatterns) THEN 0
    ELSE IF search(BreakthroughPatterns[i], text) # None THEN i
    ELSE FirstMatching(text, i + 1)

\* what a match of pattern pat at position p writes into the entry
ApplyBreakthrough(text, e, pat, p) ==
    [e EXCEPT !.is_breakthrough = TRUE,
              !.g_level = IF HasGroup(pat, "G")
                          THEN Some(Group(text, p, pat, "G").n) ELSE @,
              !.g_percent = IF HasGroup(pat, "%")
                            THEN Some(Group(text, p, pat, "%").n) ELSE @]

\* _parse_breakthrough deciding by text position: the match that starts
\* first wins, whatever its rule
_parse_breakthrough_Leftmost(text, e) ==
    LET hits == {<<p, i>> \in (1..Len(text)) \X (1..Len(BreakthroughPatterns)) :
                    MatchesAt(text, p, BreakthroughPatterns[i])}
    IN  IF hits # {}
        THEN LET h == CHOOSE x \in hits : \A y \in hits :
                          x[1] < y[1] \/ (x[1] = y[1] /\ x[2] <= y[2])
             IN  ApplyBreakthrough(text, e, BreakthroughPatterns[h[2]], h[1])
        ELSE IF search(CatchAll, text) # None
        THEN [e EXCEPT !.is_breakthrough = TRUE]
        ELSE e

\* _parse_breakthrough without lines 245-247
_parse_breakthrough_NoCatchAll(text, e) ==
    LET i == FirstMatching(text, 1)
    IN  IF i # 0
        THEN ApplyBreakthrough(text, e, BreakthroughPatterns[i],
                               Val(search(BreakthroughPatterns[i], text)))
        ELSE e

_parse_breakthrough(text, e) ==
    LET i == FirstMatching(text, 1)
    IN  IF i # 0
        THEN ApplyBreakthrough(text, e, BreakthroughPatterns[i],
                               Val(search(BreakthroughPatterns[i], text)))
        ELSE IF search(CatchAll, text) # None
        THEN [e EXCEPT !.is_breakthrough = TRUE]
        ELSE e

\* G(\d+)\s+at\s+(\d+\.?\d*)\s*%  and  currently\s+at\s+(\d+\.?\d*)%
GradeAt == <<"G", "at", "%">>
CurrentlyAt == <<"currently", "at", "%">>

\* _parse_g_info without the test of line 259
_parse_g_info_Unguarded(text, e) ==
    LET hit == LastMatch(GradeAt, text)
        cur == search(CurrentlyAt, text)
    IN  IF hit # None
        THEN [e EXCEPT !.g_level = Some(text[Val(hit)].n),
                       !.g_percent = Some(text[Val(hit) + 2].n)]
        ELSE IF cur # None
        THEN [e EXCEPT !.g_percent = Some(text[Val(cur) + 2].n)]
        ELSE e

_parse_g_info(text, e) ==
    LET hit == LastMatch(GradeAt, text)
        cur == search(CurrentlyAt, text)
    IN  IF hit # None
        THEN [e EXCEPT !.g_level = Some(text[Val(hit)].n),
                       !.g_percent = Some(text[Val(hit) + 2].n)]
        ELSE IF e.g_percent = None /\ cur # None
        THEN [e EXCEPT !.g_percent = Some(text[Val(cur) + 2].n)]
        ELSE e

\* the years read with (\d+) in place of (\d+\.?\d*)
FloatAtEnd_NoPoint(t) == (IF t.k = "dec" THEN t.n % 1000 ELSE t.n) * 1000

\* float() of (\d+\.?\d*) ending a token, in thousandths
FloatAtEnd(t) == IF t.k = "dec" THEN t.n ELSE t.n * 1000

\* int() of (\d+) ending a token: of "N.DDD" the digits after the point
IntAtEnd(t) == IF t.k = "dec" THEN t.n % 1000 ELSE t.n

YearsPattern == <<"digits", "years">>
HoursPattern == <<"digits", "hours">>
MinutesPattern == <<"digits", "minutes">>
AndPattern == <<"digits", "and", "int", "minutes">>
MilestoneGrade == <<"to", "G">>
MilestoneStage == <<"to", "realm", "phase">>

\* milestone_hits[-1]: the tokens of the last "to <target>" group, or None
LastMilestone(text) ==
    LET ps == Matches(text, MilestoneGrade) \cup Matches(text, MilestoneStage)
    IN  IF ps = {} THEN None
        ELSE LET p == CHOOSE q \in ps : \A r \in ps : q >= r
             IN  IF MatchesAt(text, p, MilestoneGrade) THEN Some(<<text[p + 1]>>)
                 ELSE IF MatchesAt(text, p, MilestoneStage \o <<"G">>)
                 THEN Some(SubSeq(text, p + 1, p + 3))
                 ELSE Some(SubSeq(text, p + 1, p + 2))

\* _parse_time_to_next with the 'N and M Min' form applied whether or not
\* an hours value was found
_parse_time_to_next_AlwaysAnd(text, e) ==
    LET y == search(YearsPattern, text)
        h == search(HoursPattern, text)
        m == search(MinutesPattern, text)
        hours == IF h # None THEN Some(IntAtEnd(text[Val(h)])) ELSE e.hours_to_next
        a == search(AndPattern, text)
        to == LastMilestone(text)
    IN  [e EXCEPT !.years_to_next = IF y # None THEN Some(FloatAtEnd(text[Val(y)])) ELSE @,
                  !.hours_to_next = IF a # None THEN Some(IntAtEnd(text[Val(a)])) ELSE hours,
                  !.minutes_to_next = IF a # None THEN Some(text[Val(a) + 2].n)
                                      ELSE IF m # None THEN Some(IntAtEnd(text[Val(m)]))
                                      ELSE @,
                  !.next_milestone = IF to # None THEN to ELSE @]

\* lines 265-295
_parse_time_to_next(text, e) ==
    LET y == search(YearsPattern, text)
        h == search(HoursPattern, text)
        m == search(MinutesPattern, text)
        hours == IF h # None THEN Some(IntAtEnd(text[Val(h)])) ELSE e.hours_to_next
        a == IF hours = None THEN search(AndPattern, text) ELSE None
        to == LastMilestone(text)
    IN  [e EXCEPT !.years_to_next = IF y # None THEN Some(FloatAtEnd(text[Val(y)])) ELSE @,
                  !.hours_to_next = IF a # None THEN Some(IntAtEnd(text[Val(a)])) ELSE hours,
                  !.minutes_to_next = IF a # None THEN Some(text[Val(a) + 2].n)
                                      ELSE IF m # None THEN Some(IntAtEnd(text[Val(m)]))
                                      ELSE @,
                  !.next_milestone = IF to # None THEN to ELSE @]

\* bool(re.search(r'predicted|chatgpt', header, re.IGNORECASE))
is_predicted(block) ==
    \E j \in 1..Len(block.tail) :
        block.tail[j].k = "word" /\ block.tail[j].s \in Slot.predicted

\* lines 126-138: the header fields, and None for a block without a date
ParseHeader(block, year) ==
    LET date == _parse_date(block, year)
    IN  IF date = None THEN None
        ELSE Some([ProgressionEntry EXCEPT
                     !.date = Val(date),
                     !.time = _parse_time(block),
                     !.stage_name = _parse_stage(block),
                     !.stage_percent = _parse_stage_percent(block),
                     !.is_predicted = is_predicted(block)])

\* body_text or all_text
GradeText(block) ==
    IF body_text(block) # <<>> THEN body_text(block) ELSE all_text(block)

\* CollectNotes without the test of the stripped line
CollectNotes_KeepBlank(block, e) ==
    [e EXCEPT !.notes = [j \in 1..Len(BodyLines(block.lines)) |->
                            strip(BodyLines(block.lines)[j])]]

\* lines 149-152: the stripped non-blank lines after the header
CollectNotes(block, e) ==
    LET kept == SelectSeq(BodyLines(block.lines), LAMBDA l : l.toks # <<>>)
    IN  [e EXCEPT !.notes = [j \in 1..Len(kept) |-> strip(kept[j])]]

_parse_block(block, year) ==
    LET h == ParseHeader(block, year)
    IN  IF h = None THEN None
        ELSE Some(CollectNotes(block,
                    _parse_time_to_next(all_text(block),
                      _parse_g_info(GradeText(block),
                        _parse_breakthrough(all_text(block), Val(h))))))

-----------------------------------------------------------------------------
(* LogParser.parse *)

\* IsRollover without the test of the previous month
IsRollover_AnyEarlyMonth(prev, month) == month <= ROLLOVER_TO

\* the year-rollover test of the loop
IsRollover(prev, month) ==
    prev # None /\ Val(prev) >= ROLLOVER_FROM /\ month <= ROLLOVER_TO

\* lines 76-89: read the text, find the base year, split, set up the fold
ReadYear ==
    /\ pc = "start"
    /\ base_year' = IF content.year_line # None THEN Val(content.year_line)
                    ELSE base_year
    /\ current_year' = base_year'
    /\ prev_month' = None
    /\ idx' = 0
    /\ pc' = "loop"
    /\ UNCHANGED <<host, content, entries, block_entry, loaded, analytics, metrics>>

\* lines 91-111: one iteration of the for loop over raw_blocks
ParseBlockStep ==
    /\ pc = "loop"
    /\ idx < Len(content.blocks)
    /\ idx' = idx + 1
    /\ LET block == content.blocks[idx + 1]
           entry == IF block.kind = "entry" THEN _parse_block(block, current_year)
                    ELSE None
           month == Val(entry).date.month
           roll == entry # None /\ IsRollover(prev_month, month)
           moved == ReplaceYear(Val(entry).date, current_year + 1)
       IN  /\ current_year' = IF roll THEN current_year + 1 ELSE current_year
           /\ IF entry = None
              THEN UNCHANGED <<prev_month, entries, pc>>
              ELSE IF roll /\ moved = ValueError
              THEN pc' = "raised" /\ UNCHANGED <<prev_month, entries>>
              ELSE /\ prev_month' = Some(month)
                   /\ entries' = Append(entries,
                          IF roll THEN [Val(entry) EXCEPT !.date = Val(moved)]
                          ELSE Val(entry))
                   /\ pc' = pc
    /\ UNCHANGED <<host, content, base_year, block_entry, loaded, analytics, metrics>>

\* line 113
Return ==
    /\ pc = "loop"
    /\ idx = Len(content.blocks)
    /\ pc' = "done"
    /\ UNCHANGED <<host, content, base_year, current_year, prev_month, idx, entries,
                   block_entry, loaded, analytics, metrics>>

Next == ReadYear \/ ParseBlockStep \/ Return

-----------------------------------------------------------------------------
(* _parse_block, one call at a time *)

\* the block handed to _parse_block by the loop
CurrentBlock == content.blocks[idx + 1]

\* lines 121-138
HeaderStep ==
    /\ pc = "block"
    /\ LET h == ParseHeader(CurrentBlock, current_year)
       IN  /\ block_entry' = h
           /\ pc' = IF h = None THEN "rejected" ELSE "breakthrough"
    /\ UNCHANGED <<host, content, base_year, current_year, prev_month, idx, entries,
                   loaded, analytics, metrics>>

\* line 144
BreakthroughStep ==
    /\ pc = "breakthrough"
    /\ block_entry' = Some(_parse_breakthrough(all_text(CurrentBlock), Val(block_entry)))
    /\ pc' = "g_info"
    /\ UNCHANGED <<host, content, base_year, current_year, prev_month, idx, entries,
                   loaded, analytics, metrics>>

\* line 145
GInfoStep ==
    /\ pc = "g_info"
    /\ block_entry' = Some(_parse_g_info(GradeText(CurrentBlock), Val(block_entry)))
    /\ pc' = "time_to_next"
    /\ UNCHANGED <<host, content, base_year, current_year, prev_month, idx, entries,
                   loaded, analytics, metrics>>

\* line 146
TimeToNextStep ==
    /\ pc = "time_to_next"
    /\ block_entry' = Some(_parse_time_to_next(all_text(CurrentBlock), Val(block_entry)))
    /\ pc' = "notes"
    /\ UNCHANGED <<host, content, base_year, current_year, prev_month, idx, entries,
                   loaded, analytics, metrics>>

\* lines 148-154
NotesStep ==
    /\ pc = "notes"
    /\ block_entry' = Some(CollectNotes(CurrentBlock, Val(block_entry)))
    /\ pc' = "parsed"
    /\ UNCHANGED <<host, content, base_year, current_year, prev_month, idx, entries,
                   loaded, analytics, metrics>>

NextBlock == HeaderStep \/ BreakthroughStep \/ GInfoStep \/ TimeToNextStep \/ NotesStep

-----------------------------------------------------------------------------
(* Arithmetic of the analytics *)

\* a division that raised
ZeroDivisionError == <<>>

\* n / d for n >= 0, d > 0, rounded to the nearest integer, ties to even
RoundHalfEven(n, d) ==
    LET q == n \div d
        r == n % d
    IN  IF 2 * r > d THEN q + 1
        ELSE IF 2 * r < d THEN q
        ELSE IF q % 2 = 0 THEN q ELSE q + 1

\* round(n / d) for d > 0
Round(n, d) == IF n >= 0 THEN RoundHalfEven(n, d) ELSE 0 - RoundHalfEven(0 - n, d)

\* round(n / d, k) with the scale 10^k folded into n: the rounded value, or
\* ZeroDivisionError when d is 0
Quot(n, d) ==
    IF d = 0 THEN ZeroDivisionError
    ELSE IF d > 0 THEN Some(Round(n, d)) ELSE Some(Round(0 - n, 0 - d))

\* ProgressionEntry.to_dict (every entry that parse returns holds a date)
to_dict(e) ==
    [date |-> Some(isoformat(e.date)),
     time |-> e.time,
     stage_name |-> e.stage_name,
     stage_percent |-> e.stage_percent,
     g_level |-> e.g_level,
     g_percent |-> e.g_percent,
     years_to_next |-> e.years_to_next,
     hours_to_next |-> e.hours_to_next,
     minutes_to_next |-> e.minutes_to_next,
     next_milestone |-> e.next_milestone,
     is_breakthrough |-> e.is_breakthrough,
     notes |-> e.notes,
     is_predicted |-> e.is_predicted]

\* list.sort / sorted: stable, x goes after every element not greater than it
InsertByDate(s, x) ==
    LET n == Cardinality({i \in 1..Len(s) : ~IsoLess(Val(x.date), Val(s[i].date))})
    IN  SubSeq(s, 1, n) \o <<x>> \o SubSeq(s, n + 1, Len(s))

RECURSIVE sorted(_)
sorted(s) ==
    IF s = <<>> THEN <<>>
    ELSE InsertByDate(sorted(SubSeq(s, 1, Len(s) - 1)), s[Len(s)])

\* (date of b) - (date of a) for two dicts, in minutes
Elapsed(a, b) == MinutesBetween(fromisoformat(Val(a.date)), fromisoformat(Val(b.date)))

\* x or 0
OrZero(pct) == IF pct = None THEN 0 ELSE Val(pct)

RECURSIVE SumHrs(_)
SumHrs(s) == IF s = <<>> THEN 0 ELSE s[1].hrs + SumHrs(Tail(s))

RECURSIVE SumPct(_)
SumPct(s) == IF s = <<>> THEN 0 ELSE s[1].pct + SumPct(Tail(s))

-----------------------------------------------------------------------------
(* compute_analytics *)

\* the entries of one stage, in date order
StageEntries(valid, stage) ==
    sorted(SelectSeq(valid, LAMBDA e : e.stage_name = Some(stage)))

StageIndex(stage) == CHOOSE i \in 1..Len(STAGE_ORDER) : STAGE_ORDER[i] = stage

\* lines 90-95
Completed(valid, stage, ep) ==
    LET si == StageIndex(stage)
    IN  \/ ep >= COMPLETE_PCT
        \/ /\ si < Len(STAGE_ORDER)
           /\ \E k \in 1..Len(valid) : valid[k].stage_name = Some(STAGE_ORDER[si + 1])

\* the statistics of one stage with the days taken unclamped
StageStats_DaysUnclamped(valid, stage) ==
    LET se == StageEntries(valid, stage)
    IN  IF se = <<>>
        THEN [completed |-> FALSE, entries |-> 0, days |-> 0]
        ELSE LET sd == fromisoformat(Val(se[1].date))
                 ed == fromisoformat(Val(se[Len(se)].date))
                 days == DaysBetween(sd, ed)
                 sp == OrZero(se[1].stage_percent)
                 ep == OrZero(se[Len(se)].stage_percent)
                 rate == IF days > 0 THEN Quot((ep - sp) * 100, days) ELSE Some(0)
             IN  [start_date |-> Val(se[1].date),
                  end_date |-> Val(se[Len(se)].date),
                  days |-> days,
                  start_percent |-> sp,
                  end_percent |-> ep,
                  daily_rate |-> rate,
                  entries |-> Len(se),
                  completed |-> Completed(valid, stage, ep)]

\* lines 74-107: the statistics of one stage; daily_rate in 10^-4 percent
StageStats(valid, stage) ==
    LET se == StageEntries(valid, stage)
    IN  IF se = <<>>
        THEN [completed |-> FALSE, entries |-> 0, days |-> 0]
        ELSE LET sd == fromisoformat(Val(se[1].date))
                 ed == fromisoformat(Val(se[Len(se)].date))
                 days == Max(DaysBetween(sd, ed), 1)
                 sp == OrZero(se[1].stage_percent)
                 ep == OrZero(se[Len(se)].stage_percent)
                 rate == IF days > 0 THEN Quot((ep - sp) * 100, days) ELSE Some(0)
             IN  [start_date |-> Val(se[1].date),
                  end_date |-> Val(se[Len(se)].date),
                  days |-> days,
                  start_percent |-> sp,
                  end_percent |-> ep,
                  daily_rate |-> rate,
                  entries |-> Len(se),
                  completed |-> Completed(valid, stage, ep)]

\* DailyRatePoint without the test that both entries are of one stage
DailyRatePoint_AnyStage(prev, curr) ==
    IF /\ prev.stage_percent # None
       /\ curr.stage_percent # None
    THEN LET dd == Elapsed(prev, curr)
             dp == Val(curr.stage_percent) - Val(prev.stage_percent)
         IN  IF dd > 0 /\ dp > 0
             THEN Some([date |-> Val(curr.date),
                        rate |-> Quot(dp * 144000, dd),
                        stage |-> curr.stage_name])
             ELSE None
    ELSE None

\* lines 138-154: the point of the pair (valid[i], valid[i+1]), or None;
\* rate in 10^-4 percent per day
DailyRatePoint(prev, curr) ==
    IF /\ prev.stage_name = curr.stage_name
       /\ prev.stage_percent # None
       /\ curr.stage_percent # None
    THEN LET dd == Elapsed(prev, curr)
             dp == Val(curr.stage_percent) - Val(prev.stage_percent)
         IN  IF dd > 0 /\ dp > 0
             THEN Some([date |-> Val(curr.date),
                        rate |-> Quot(dp * 144000, dd),
                        stage |-> curr.stage_name])
             ELSE None
    ELSE None

RECURSIVE DailyRates(_, _)
DailyRates(valid, i) ==
    IF i >= Len(valid) THEN <<>>
    ELSE DailyRatePoint(valid[i], valid[i + 1]) \o DailyRates(valid, i + 1)

\* EfficiencyGain without the test that the percent increased
EfficiencyGain_AnyChange(p, c) ==
    IF /\ p.stage_percent # None
       /\ c.stage_percent # None
    THEN [hrs |-> Elapsed(p, c), pct |-> Val(c.stage_percent) - Val(p.stage_percent)]
    ELSE [hrs |-> 0, pct |-> 0]

\* lines 166-176: what the pair (p, c) adds to total_hrs (minutes) and
\* total_pct (hundredths)
EfficiencyGain(p, c) ==
    IF /\ p.stage_percent # None
       /\ c.stage_percent # None
       /\ Val(c.stage_percent) - Val(p.stage_percent) > 0
    THEN [hrs |-> Elapsed(p, c), pct |-> Val(c.stage_percent) - Val(p.stage_percent)]
    ELSE [hrs |-> 0, pct |-> 0]

EfficiencyGains(se) == [i \in 1..(Len(se) - 1) |-> EfficiencyGain(se[i], se[i + 1])]

\* line 179: round(total_hrs / total_pct, 2), in 10^-2 hours per percent
HoursPerPct(total_hrs, total_pct) == Quot(total_hrs * 500, 3 * total_pct)

\* PctPerDay without the test of total_hrs
PctPerDay_Unguarded(total_pct, total_hrs) == Quot(total_pct * 144000, total_hrs)

\* line 180: round(total_pct * 24 / total_hrs, 4) if total_hrs else 0
PctPerDay(total_pct, total_hrs) ==
    IF total_hrs # 0 THEN Quot(total_pct * 144000, total_hrs) ELSE Some(0)

\* lines 158-181: the stages of the efficiency map
EfficiencyStages(valid) ==
    { stage \in {STAGE_ORDER[i] : i \in 1..Len(STAGE_ORDER)} :
        LET se == StageEntries(valid, stage)
        IN  Len(se) >= 2 /\ SumPct(EfficiencyGains(se)) > 0 }

Efficiency(valid) ==
    [stage \in EfficiencyStages(valid) |->
        LET g == EfficiencyGains(StageEntries(valid, stage))
        IN  [hours_per_pct |-> HoursPerPct(SumHrs(g), SumPct(g)),
             pct_per_day |-> PctPerDay(SumPct(g), SumHrs(g))]]

\* lines 185-203: the divisors of the prediction (wdays in minutes, then
\* the rate as a percent difference), each used only behind its guard
PredictionDivisors(valid) ==
    LET last == valid[Len(valid)]
        recent == StageEntries(valid, Val(last.stage_name))
        window == SubSeq(recent, Len(recent) - Min(10, Len(recent)) + 1, Len(recent))
        wdays == Elapsed(window[1], window[Len(window)])
        dp == Val(window[Len(window)].stage_percent) - Val(window[1].stage_percent)
    IN  IF last.stage_name = None \/ Len(recent) < 2 THEN {}
        ELSE IF ~( /\ wdays > 0
                   /\ window[1].stage_percent # None
                   /\ window[Len(window)].stage_percent # None ) THEN {}
        ELSE IF dp > 0 THEN {wdays, dp} ELSE {wdays}

\* a * b = q * c + r with 0 <= r < c, for a, b >= 0 and c > 0, computed
\* without forming the product a * b
RECURSIVE MulDivRem(_, _, _)
MulDivRem(a, b, c) ==
    IF a = 0 THEN [q |-> 0, r |-> 0]
    ELSE LET h == MulDivRem(a \div 2, b, c)
             q2 == 2 * h.q + (IF a % 2 = 1 THEN b \div c ELSE 0)
             r2 == 2 * h.r + (IF a % 2 = 1 THEN b % c ELSE 0)
         IN  [q |-> q2 + (r2 \div c), r |-> r2 % c]

\* line 206: round(d2c, 1) with d2c = remaining * wdays / dp, in tenths of
\* a day (wmin: the window's length in minutes)
DaysRemaining(remaining, wmin, dp) ==
    LET a == IF remaining >= 0 THEN remaining ELSE 0 - remaining
        t == MulDivRem(a, wmin, 144 * dp)
        n == IF 2 * t.r > 144 * dp THEN t.q + 1
             ELSE IF 2 * t.r < 144 * dp THEN t.q
             ELSE IF t.q % 2 = 0 THEN t.q ELSE t.q + 1
    IN  IF remaining >= 0 THEN n ELSE 0 - n

\* line 202: wd2 + timedelta(days=d2c), as the day it falls on, or
\* OverflowError when that day is outside the years 1..9999
ProjectedDay(wd2, remaining, wmin, dp) ==
    LET a == IF remaining >= 0 THEN remaining ELSE 0 - remaining
        t == MulDivRem(a, wmin, 1440 * dp)
        mod == wd2.hour * 60 + wd2.minute
        shift == IF remaining >= 0
                 THEN t.q + (IF mod + (t.r \div dp) >= 1440 THEN 1 ELSE 0)
                 ELSE 0 - t.q - (IF mod * dp >= t.r THEN 0 ELSE 1)
        n == Ordinal(wd2) + shift
    IN  IF n < 1 \/ n > DaysBeforeYear(MAXYEAR + 1) THEN OverflowError
        ELSE FromOrdinal(n)

\* predictions = {}
NoPrediction == <<>>

\* lines 183-210: the prediction for the stage of the date-latest entry;
\* percents in hundredths, current_rate in 10^-4 percent per day,
\* projected_date as the fields that strftime('%B %d, %Y') writes
Prediction(valid) ==
    LET last == valid[Len(valid)]
        recent == StageEntries(valid, Val(last.stage_name))
        window == SubSeq(recent, Len(recent) - Min(10, Len(recent)) + 1, Len(recent))
        w1 == window[1]
        w2 == window[Len(window)]
        wmin == Elapsed(w1, w2)
    IN  IF last.stage_name = None \/ Len(recent) < 2 THEN NoPrediction
        ELSE IF ~( /\ wmin > 0
                   /\ w1.stage_percent # None
                   /\ w2.stage_percent # None ) THEN NoPrediction
        ELSE LET dp == Val(w2.stage_percent) - Val(w1.stage_percent)
                 remaining == 10000 - OrZero(w2.stage_percent)
                 proj == ProjectedDay(fromisoformat(Val(w2.date)), remaining, wmin, dp)
             IN  IF dp <= 0 THEN NoPrediction
                 ELSE IF proj = OverflowError THEN OverflowError
                 ELSE [current_rate |-> Quot(dp * 144000, wmin),
                       days_remaining |-> DaysRemaining(remaining, wmin, dp),
                       projected_date |-> proj,
                       stage |-> last.stage_name]

\* compute_analytics(entries): the sections the dashboard reads, and whether
\* a division raised; predictions is OverflowError when line 202 raised
compute_analytics(es) ==
    LET dicts == [i \in 1..Len(es) |-> to_dict(es[i])]
        valid == sorted(SelectSeq(dicts, LAMBDA e : e.date # None))
        stages == [stage \in {STAGE_ORDER[i] : i \in 1..Len(STAGE_ORDER)} |->
                      StageStats(valid, stage)]
        daily_rates == DailyRates(valid, 1)
        efficiency == Efficiency(valid)
    IN  IF valid = <<>>
        THEN [empty |-> TRUE, raised |-> FALSE]
        ELSE [empty |-> FALSE,
              raised |->
                  \/ \E st \in DOMAIN stages :
                        stages[st].entries > 0 /\ stages[st].daily_rate = ZeroDivisionError
                  \/ \E i \in 1..Len(daily_rates) : daily_rates[i].rate = ZeroDivisionError
                  \/ \E st \in DOMAIN efficiency :
                        \/ efficiency[st].hours_per_pct = ZeroDivisionError
                        \/ efficiency[st].pct_per_day = ZeroDivisionError
                  \/ 0 \in PredictionDivisors(valid),
              entries |-> dicts,
              total_entries |-> Len(valid),
              stages |-> stages,
              daily_rates |-> daily_rates,
              efficiency |-> efficiency,
              predictions |-> Prediction(valid)]

\* the caller's list after a call that reverses it in place
InputAfterCall_Reversed(es) == [i \in 1..Len(es) |-> es[Len(es) + 1 - i]]

\* the caller's list after compute_analytics(entries): lines 44-48 build the
\* new lists dicts and valid, and nothing assigns to entries or to an entry
InputAfterCall(es) == es

\* rebuild_dashboard line 303, after parse has returned
ComputeAnalytics ==
    /\ pc = "done"
    /\ analytics' = compute_analytics(entries)
    /\ entries' = InputAfterCall(entries)
    /\ pc' = "analysed"
    /\ UNCHANGED <<host, content, base_year, current_year, prev_month, idx,
                   block_entry, loaded, metrics>>

\* self.entries when parse runs again on the parser that ran before
ReusedParserEntries(es) == es

\* LogParser.__init__, line 71: self.entries of a new parser, whatever list an
\* earlier parser holds
NewParserEntries(es) == <<>>

\* rebuild_dashboard called again over the same log file: line 301 makes a
\* new parser; the dashboard written by the run before stays on disk
Rebuild ==
    /\ pc = "analysed"
    /\ pc' = "start"
    /\ entries' = NewParserEntries(entries)
    /\ base_year' = DEFAULT_BASE_YEAR
    /\ current_year' = DEFAULT_BASE_YEAR
    /\ prev_month' = None
    /\ idx' = 0
    /\ UNCHANGED <<host, content, block_entry, loaded, analytics, metrics>>

NextRebuild == Next \/ ComputeAnalytics \/ Rebuild

-----------------------------------------------------------------------------
(* ProgressionAnalyzer *)

\* LogParser.to_json then ProgressionAnalyzer.__init__: the dicts, each date
\* read back with datetime.fromisoformat
LoadData(es) ==
    [i \in 1..Len(es) |->
        LET d == to_dict(es[i])
        IN  [d EXCEPT !.date = IF d.date # None THEN Some(fromisoformat(Val(d.date)))
                               ELSE None]]

\* stage_entries.sort(key=lambda x: x['date'] ...): stable, by date
InsertByDatetime(s, x) ==
    LET n == Cardinality({i \in 1..Len(s) : MinutesBetween(Val(s[i].date), Val(x.date)) >= 0})
    IN  SubSeq(s, 1, n) \o <<x>> \o SubSeq(s, n + 1, Len(s))

RECURSIVE SortedByDatetime(_)
SortedByDatetime(s) ==
    IF s = <<>> THEN <<>>
    ELSE InsertByDatetime(SortedByDatetime(SubSeq(s, 1, Len(s) - 1)), s[Len(s)])

\* the truth value of a percent: None and 0 are false
Truthy(pct) == pct # None /\ Val(pct) # 0

\* lines 174-184
AnalyzerGain(prev, curr) ==
    IF /\ prev.date # None /\ curr.date # None
       /\ Truthy(prev.stage_percent) /\ Truthy(curr.stage_percent)
       /\ Val(curr.stage_percent) - Val(prev.stage_percent) > 0
    THEN [hrs |-> MinutesBetween(Val(prev.date), Val(curr.date)),
          pct |-> Val(curr.stage_percent) - Val(prev.stage_percent)]
    ELSE [hrs |-> 0, pct |-> 0]

AnalyzerGains(se) == [i \in 1..(Len(se) - 1) |-> AnalyzerGain(se[i], se[i + 1])]

AnalyzerStageEntries(data, stage) ==
    SortedByDatetime(SelectSeq(data, LAMBDA e : e.stage_name = Some(stage)))

\* line 189: round(24 * total_progress / total_hours, 3), in 10^-3 percent
PercentPerDay(total_progress, total_hours) == Quot(total_progress * 14400, total_hours)

\* get_efficiency_metrics over the exported entries
get_efficiency_metrics(data) ==
    LET present == { stage \in {STAGE_ORDER[i] : i \in 1..Len(STAGE_ORDER)} :
                       LET se == AnalyzerStageEntries(data, stage)
                       IN  Len(se) >= 2 /\ SumPct(AnalyzerGains(se)) > 0 }
        by_stage == [stage \in present |->
                       LET g == AnalyzerGains(AnalyzerStageEntries(data, stage))
                       IN  [hours_per_percent |-> Quot(SumHrs(g) * 500, 3 * SumPct(g)),
                            percent_per_day |-> PercentPerDay(SumPct(g), SumHrs(g))]]
    IN  [raised |-> \E st \in present :
                       \/ by_stage[st].hours_per_percent = ZeroDivisionError
                       \/ by_stage[st].percent_per_day = ZeroDivisionError,
         efficiency_by_stage |-> by_stage]

\* example_usage: export with to_json, load, get_efficiency_metrics
GetEfficiencyMetrics ==
    /\ pc = "analysed"
    /\ metrics' = get_efficiency_metrics(LoadData(entries))
    /\ pc' = "reported"
    /\ UNCHANGED <<host, content, base_year, current_year, prev_month, idx, entries,
                   block_entry, loaded, analytics>>

NextAnalytics == ComputeAnalytics \/ GetEfficiencyMetrics

\* LogParser.to_json, then ProgressionAnalyzer.__init__ on the file written
LoadJson ==
    /\ pc = "done"
    /\ loaded' = LoadData(entries)
    /\ pc' = "loaded"
    /\ UNCHANGED <<host, content, base_year, current_year, prev_month, idx, entries,
                   block_entry, analytics, metrics>>

NextBody == Next \/ LoadJson

-----------------------------------------------------------------------------
(* Log texts *)

NoStage == <<>>
W_Celestial == <<"C", "e", "l", "e", "s", "t", "i", "a", "l">>
W_CELESTIAL == <<"C", "E", "L", "E", "S", "T", "I", "A", "L">>
W_celestial == <<"c", "e", "l", "e", "s", "t", "i", "a", "l">>
W_Celesital == <<"C", "e", "l", "e", "s", "i", "t", "a", "l">>
W_Celestia == <<"C", "e", "l", "e", "s", "t", "i", "a">>
W_Celesti == <<"C", "e", "l", "e", "s", "t", "i">>
W_Celestal == <<"C", "e", "l", "e", "s", "t", "a", "l">>
W_Eternal == <<"E", "t", "e", "r", "n", "a", "l">>
W_ETERNAL == <<"E", "T", "E", "R", "N", "A", "L">>
W_eternal == <<"e", "t", "e", "r", "n", "a", "l">>
W_Eternall == <<"E", "t", "e", "r", "n", "a", "l", "l">>
W_inEternal == <<"i", "n", "E", "t", "e", "r", "n", "a", "l">>
W_Early == <<"E", "a", "r", "l", "y">>
W_EARLY == <<"E", "A", "R", "L", "Y">>
W_Middle == <<"M", "i", "d", "d", "l", "e">>
W_MIDDLE == <<"M", "I", "D", "D", "L", "E">>
W_middle == <<"m", "i", "d", "d", "l", "e">>
W_Late == <<"L", "a", "t", "e">>
W_late == <<"l", "a", "t", "e">>
W_Later == <<"L", "a", "t", "e", "r">>
W_Mid == <<"M", "i", "d">>

RealmWords ==
    { NoStage, W_Celestial, W_CELESTIAL, W_celestial, W_Celesital, W_Celestia,
      W_Celesti, W_Celestal, W_Eternal, W_ETERNAL, W_eternal, W_Eternall,
      W_inEternal }

PhaseWordsWritten ==
    { NoStage, W_Early, W_EARLY, W_Middle, W_MIDDLE, W_middle, W_Late, W_late,
      W_Later, W_Mid }

EmptyBlock ==
    [kind |-> "empty", month |-> 1, has_day |-> FALSE, day |-> 0, time |-> None,
     realm |-> NoStage, phase |-> NoStage, pct |-> None,
     tail |-> <<>>, lines |-> <<>>]

\* text before the first month name: a title, the year line
StrayBlock == [EmptyBlock EXCEPT !.kind = "stray"]

\* a first block that starts with a month name not followed by a day ("Maybe ...")
MonthWordBlock == [EmptyBlock EXCEPT !.kind = "entry", !.month = 5]

Header(month, day, time, realm, phase, pct) ==
    [kind |-> "entry", month |-> month, has_day |-> TRUE, day |-> day,
     time |-> time, realm |-> realm, phase |-> phase, pct |-> pct,
     tail |-> <<>>, lines |-> <<>>]

Clock(h, mm, ampm) == Some([h |-> h, mm |-> mm, ampm |-> ampm])

SeqsUpTo(S, n) == UNION {[1..k -> S] : k \in 0..n}

\* blocks for the year fold: the months around the turn of the year, a leap
\* day and a block whose date cannot be built (day 0)
RolloverBlocks ==
    { Header(m, 15, None, W_Celestial, W_Early, Some(1250)) : m \in {10, 11, 12, 1, 2} }
    \cup { Header(2, 29, None, W_Celestial, W_Early, Some(1250)),
           Header(12, 0, None, W_Celestial, W_Early, Some(1250)) }

\* the year line and the first raw block: a year line makes the text before
\* the first month name non-empty
LogHeads ==
    { <<None, EmptyBlock>>, <<None, MonthWordBlock>>,
      <<Some(2023), StrayBlock>>, <<Some(2024), StrayBlock>>,
      <<Some(MAXYEAR), StrayBlock>> }

-----------------------------------------------------------------------------
(* The split of the text into raw blocks *)

\* A text is a sequence of segments: an item and the whitespace before it
\* (lead.n characters, with a newline among them or not). An item is stray
\* words, a month name followed by a word ("May the"), or a month name,
\* whitespace (sep) and a number, followed by the rest of an entry header.

\* the first one or two digits of a number: what (\d{1,2}) takes of it
RECURSIVE FirstTwoDigits(_)
FirstTwoDigits(n) == IF n <= MaxTwoDigits THEN n ELSE FirstTwoDigits(n \div 10)

\* the tokens an item leaves in the block it falls into
ItemTokens(item) ==
    IF item.k = "words" THEN <<Word("farming")>>
    ELSE IF item.k = "month" THEN <<Word("May"), Word("the")>>
    ELSE <<Number(item.number)>>

\* the text of the segments fs, added to the header line or as body lines
RECURSIVE WithFollowers(_, _)
WithFollowers(block, fs) ==
    IF fs = <<>> THEN block
    ELSE LET toks == ItemTokens(fs[1].item)
             n == Len(block.lines)
             next == IF fs[1].lead.nl
                     THEN [block EXCEPT !.lines = Append(@, Line(0, toks, 0))]
                     ELSE IF n = 0 THEN [block EXCEPT !.tail = @ \o toks]
                     ELSE [block EXCEPT !.lines[n].toks = @ \o toks]
         IN  WithFollowers(next, Tail(fs))

\* Occurrences restricted to month names that start a line
Occurrences_AtLineStart(text) ==
    {i \in 1..Len(text) : text[i].item.k = "date" /\ (i = 1 \/ text[i].lead.nl)}

\* the positions where the lookahead \s*<month>\s+\d{1,2} matches at the
\* month name itself
Occurrences(text) == {i \in 1..Len(text) : text[i].item.k = "date"}

\* the first split position after segment i, or the end of the text
NextOccurrence(text, i) ==
    LET later == {j \in Occurrences(text) : j > i}
    IN  IF later = {} THEN Len(text) + 1
        ELSE CHOOSE j \in later : \A q \in later : j <= q

\* the piece that starts at the month name of segment i: the header line
\* holds the day when month and number are on one line
OccurrenceBlock(text, i) ==
    LET item == text[i].item
        h == Header(item.month, FirstTwoDigits(item.number), None,
                    W_Celestial, W_Early, Some(1250))
    IN  WithFollowers([h EXCEPT !.has_day = (item.sep = "space")],
                      SubSeq(text, i + 1, NextOccurrence(text, i) - 1))

\* the text before the first split position
FirstPiece(text) ==
    IF NextOccurrence(text, 0) = 1 THEN EmptyBlock
    ELSE IF text[1].item.k = "month" THEN MonthWordBlock
    ELSE StrayBlock

\* the pieces from the occurrence at segment i on: one piece for every
\* whitespace character before the month name, then the piece it starts
RECURSIVE PiecesFrom(_, _)
PiecesFrom(text, i) ==
    IF i > Len(text) THEN <<>>
    ELSE [j \in 1..text[i].lead.n |-> EmptyBlock]
         \o <<OccurrenceBlock(text, i)>>
         \o PiecesFrom(text, NextOccurrence(text, i))

\* lines 85-86: re.split(pattern, content, flags=re.IGNORECASE)
re_split(text) ==
    <<FirstPiece(text)>> \o PiecesFrom(text, NextOccurrence(text, 0))

\* lines 76-86: read the text and split it
SplitText ==
    /\ pc = "text"
    /\ content' = [year_line |-> content.year_line,
                   blocks |-> re_split(content.text),
                   text |-> content.text]
    /\ pc' = "start"
    /\ UNCHANGED <<host, base_year, current_year, prev_month, idx, entries,
                   block_entry, loaded, analytics, metrics>>

NextText == SplitText \/ Next

IdleRest ==
    /\ pc = "start"
    /\ base_year = DEFAULT_BASE_YEAR
    /\ current_year = DEFAULT_BASE_YEAR
    /\ prev_month = None
    /\ idx = 0
    /\ entries = <<>>
    /\ block_entry = None
    /\ loaded = NotRun
    /\ analytics = NotRun
    /\ metrics = NotRun
    /\ host = NotServing

Init ==
    /\ content \in { [year_line |-> h[1], blocks |-> <<h[2]>> \o bs] :
                       h \in LogHeads,
                       bs \in SeqsUpTo(RolloverBlocks, MaxBlocks) }
    /\ IdleRest

Spec == Init /\ [][Next]_vars

\* texts to split: stray words, a month word, entry headers on one line and
\* with the day on the next line, and a month followed by a year
Glued == [n |-> 0, nl |-> FALSE]
Space == [n |-> 1, nl |-> FALSE]
NewLine == [n |-> 1, nl |-> TRUE]

StrayWords == [k |-> "words", month |-> 0, sep |-> "none", number |-> 0]
MonthWord == [k |-> "month", month |-> 5, sep |-> "none", number |-> 0]
DateItem(m, sep, n) == [k |-> "date", month |-> m, sep |-> sep, number |-> n]

Segments ==
    { [lead |-> l, item |-> i] :
        l \in {Glued, Space, NewLine},
        i \in {StrayWords, MonthWord, DateItem(3, "space", 5),
               DateItem(3, "newline", 5), DateItem(1, "space", 2025)} }

InitText ==
    /\ content \in { [year_line |-> None, blocks |-> <<>>, text |-> t] :
                       t \in SeqsUpTo(Segments, MaxSegments) }
    /\ pc = "text"
    /\ base_year = DEFAULT_BASE_YEAR
    /\ current_year = DEFAULT_BASE_YEAR
    /\ prev_month = None
    /\ idx = 0
    /\ entries = <<>>
    /\ block_entry = None
    /\ loaded = NotRun
    /\ analytics = NotRun
    /\ metrics = NotRun
    /\ host = NotServing

SpecText == InitText /\ [][NextText]_vars

\* one-block texts whose header varies in one part at a time
DateHeaders ==
    { Header(m, d, None, W_Celestial, W_Early, Some(1250)) :
        m \in 1..12, d \in 0..MaxTwoDigits }

TimeHeaders ==
    { Header(m, 30, Clock(h, mm, ap), W_Celestial, W_Early, Some(1250)) :
        m \in {2, 9}, h \in 0..MaxTwoDigits, mm \in {0, 5, 59, 60, MaxTwoDigits},
        ap \in {"AM", "PM"} }

StageHeaders ==
    { Header(9, 15, Clock(8, 53, "AM"), r, p, Some(1250)) :
        r \in RealmWords, p \in PhaseWordsWritten }

HeaderBlocks == DateHeaders \cup TimeHeaders \cup StageHeaders

InitHeader ==
    /\ content \in { [year_line |-> y, blocks |-> <<EmptyBlock, b>>] :
                       y \in {None, Some(2024), Some(0)}, b \in HeaderBlocks }
    /\ IdleRest

SpecHeader == InitHeader /\ [][Next]_vars

\* texts for runs of the whole pipeline
InitRebuild ==
    /\ content \in { [year_line |-> h[1], blocks |-> <<h[2]>> \o bs] :
                       h \in LogHeads,
                       bs \in SeqsUpTo(RolloverBlocks, MaxRerunBlocks) }
    /\ IdleRest

SpecRebuild == InitRebuild /\ [][NextRebuild]_vars

\* lines of text below a header
L_Rule1 ==
    <<Word("bt"), Word("to"), Word("Celestial"), Word("Early"), Grade(3),
      Word("at"), Percent(4000)>>
L_Rule2 == <<Word("Breakthrough"), Word("to"), Grade(7), Word("at"), Percent(1000)>>
L_Rule3 == <<Word("bt"), Word("to"), Word("Eternal"), Word("Late"), Grade(2)>>
L_Rule4 == <<Word("bt"), Word("to"), Grade(5)>>
L_Rule5 == <<Word("BT"), Word("to"), Word("celestial"), Word("Middle")>>
\* a realm that is misspelt: no structured rule reads it
L_Typo ==
    <<Word("bt"), Word("to"), Word("Celesital"), Word("Early"), Grade(6),
      Word("at"), Percent(1500)>>
L_BtTo == <<Word("bt"), Word("to")>>
L_GradeAt == <<Grade(3), Word("at"), Percent(4000)>>
L_GradeHigh == <<Grade(4), Word("at"), Percent(25000)>>
L_Currently == <<Word("currently"), Word("at"), Percent(3000)>>
L_Time ==
    <<Decimal(5250), Word("Yrs"), Word("or"), Number(1), Word("Hrs"), Number(3),
      Word("Min"), Word("to"), Grade(4)>>
L_And ==
    <<Number(157), Word("and"), Number(27), Word("Min"), Word("to"),
      Word("Eternal"), Word("Early")>>
L_Note == <<Word("farming")>>

BodyLineSet ==
    { Line(0, t, 0) : t \in { L_Rule1, L_Rule2, L_Rule3, L_Rule4, L_Rule5, L_Typo,
                              L_BtTo, L_GradeAt, L_GradeHigh, L_Currently, L_Time,
                              L_And, L_Note } }
    \cup { Line(2, L_GradeAt, 1), Line(0, L_Note, 2), Line(1, <<>>, 0) }

\* text on the header line after the header fields
TailSet ==
    { <<>>, <<Word("(Predicted)")>>, L_Rule2, <<Grade(5), Word("at"), Percent(2000)>> }

WithText(header, tail, lines) == [header EXCEPT !.tail = tail, !.lines = lines]

ExampleHeader == Header(9, 15, Clock(8, 53, "AM"), W_Celestial, W_Early, Some(1250))

\* Example A of the log format
ExampleA == WithText(ExampleHeader, <<>>, <<Line(0, L_GradeAt, 0), Line(0, L_Time, 0)>>)

\* one-block texts with a body, and headers with percents at and beyond the
\* ends of the scale
BodyBlocks ==
    { WithText(ExampleHeader, tail, ls) :
        tail \in TailSet, ls \in SeqsUpTo(BodyLineSet, MaxLines) }
    \cup { WithText(Header(9, d, None, W_Celestial, W_Early, p), <<>>, <<Line(0, t, 0)>>) :
             d \in {0, 15}, p \in {None, Some(0), Some(10000), Some(15000)},
             t \in {L_GradeAt, L_Note} }

InitBody ==
    /\ content \in { [year_line |-> None, blocks |-> <<EmptyBlock, b>>] :
                       b \in BodyBlocks }
    /\ IdleRest

SpecBody == InitBody /\ [][NextBody]_vars

InitBlock ==
    /\ content \in { [year_line |-> None, blocks |-> <<EmptyBlock, b>>] :
                       b \in BodyBlocks }
    /\ pc = "block"
    /\ base_year = DEFAULT_BASE_YEAR
    /\ current_year = DEFAULT_BASE_YEAR
    /\ prev_month = None
    /\ idx = 1
    /\ entries = <<>>
    /\ block_entry = None
    /\ loaded = NotRun
    /\ analytics = NotRun
    /\ metrics = NotRun
    /\ host = NotServing

SpecBlock == InitBlock /\ [][NextBlock]_vars

\* entry lists handed to the analytics: what parse can return
At(y, m, d, h, mi) == [year |-> y, month |-> m, day |-> d, hour |-> h, minute |-> mi]

Entry(date, stage, pct) ==
    [ProgressionEntry EXCEPT !.date = date, !.stage_name = stage,
                             !.stage_percent = pct]

D0 == At(2025, 1, 10, 12, 0)
D2 == At(2025, 1, 12, 12, 0)       \* exactly two days after D0
DFar == At(2025, 11, 6, 12, 0)     \* 300 days after D0
DNext == At(2026, 2, 14, 12, 0)    \* 400 days after D0

\* one entry of every stage (and of none) at 50%, and stages at 99%
StageFamily ==
    { Entry(D0, Some(STAGE_ORDER[i]), Some(5000)) : i \in 1..Len(STAGE_ORDER) }
    \cup { Entry(D0, None, Some(5000)),
           Entry(D0, Some(STAGE_ORDER[1]), Some(9900)),
           Entry(D2, Some(STAGE_ORDER[6]), Some(9900)) }

\* entries of one stage with close percents, near and far in time
RateFamily ==
    { Entry(d, Some(STAGE_ORDER[1]), p) :
        d \in {D0, DFar}, p \in {None, Some(0), Some(1000), Some(1001), Some(1500)} }
    \cup { Entry(D2, Some(STAGE_ORDER[1]), p) : p \in {Some(1000), Some(1500)} }
    \cup { Entry(DNext, Some(STAGE_ORDER[1]), Some(1001)) }

AnalyticsEntries == StageFamily \cup RateFamily

InitAnalytics ==
    /\ content = [year_line |-> None, blocks |-> <<EmptyBlock>>]
    /\ pc = "done"
    /\ base_year = DEFAULT_BASE_YEAR
    /\ current_year = DEFAULT_BASE_YEAR
    /\ prev_month = None
    /\ idx = 1
    /\ entries \in SeqsUpTo(AnalyticsEntries, MaxEntries)
    /\ block_entry = None
    /\ loaded = NotRun
    /\ analytics = NotRun
    /\ metrics = NotRun
    /\ host = NotServing

SpecAnalytics == InitAnalytics /\ [][NextAnalytics]_vars

-----------------------------------------------------------------------------
(* The dashboard host: api_add_entry and rebuild_dashboard *)

\* the add-entry requests in flight: app.run serves each request on a
\* thread of its own, and the handler takes no lock
Requests == 1..MaxRequests

\* a JSON value that is not a string (a number, null)
NotText == [not_text |-> TRUE]

\* calling .strip() on a value that is not a string
AttributeError == [raised |-> "AttributeError"]

\* data.get(key, ""): the value under the key, "" when the key is absent
Get(data, key) == IF data[key] = None THEN Line(0, <<>>, 0) ELSE Val(data[key])

\* data.get(key, "").strip()
GetStripped(data, key) ==
    IF Get(data, key) = NotText THEN AttributeError ELSE strip(Get(data, key))

\* lines 324-327: the two required fields are tested in this order
Validate(realm_phase, overall_pct) ==
    IF realm_phase.toks = <<>>
    THEN Some([code |-> BAD_REQUEST, error |-> "Realm Phase is required"])
    ELSE IF overall_pct.toks = <<>>
    THEN Some([code |-> BAD_REQUEST, error |-> "Overall % is required"])
    ELSE None

\* lines 329-360: the text of the entry, from the two required fields (date
\* and time default to the clock, the optional lines are left out); `by`
\* records the request that wrote it
EntryText(r, data) ==
    [by |-> r,
     realm_phase |-> GetStripped(data, "realm_phase").toks,
     overall_pct |-> GetStripped(data, "overall_pct").toks]

\* request bodies: each required field absent, empty, blank, a text with
\* blanks around it, or (overall_pct) a JSON number
Bodies ==
    [realm_phase : {None, Some(Line(0, <<>>, 0)), Some(Line(1, <<>>, 1)),
                    Some(Line(0, <<Word("Celestial"), Word("Early")>>, 1))},
     overall_pct : {None, Some(Line(2, <<>>, 0)),
                    Some(Line(1, <<Decimal(12500)>>, 0)), Some(NotText)}]

IdleRequest == [pc |-> "idle", data |-> None, read |-> <<>>, status |-> None]

\* lines 319-327: the body is read and the required fields are tested; the
\* request is answered here with an error, or goes on to write
ReceiveRequest(r) ==
    /\ pc = "serving"
    /\ host.req[r].pc = "idle"
    /\ \E data \in Bodies :
          LET realm_phase == GetStripped(data, "realm_phase")
              overall_pct == GetStripped(data, "overall_pct")
              raised == realm_phase = AttributeError \/ overall_pct = AttributeError
              refused == Validate(realm_phase, overall_pct)
          IN  host' = [host EXCEPT !.req[r] =
                  IF raised
                  THEN [@ EXCEPT !.pc = "returned", !.data = Some(data),
                                 !.status = Some(AttributeError)]
                  ELSE IF refused # None
                  THEN [@ EXCEPT !.pc = "returned", !.data = Some(data),
                                 !.status = refused]
                  ELSE [@ EXCEPT !.pc = "validated", !.data = Some(data)]]
    /\ UNCHANGED <<content, pc, base_year, current_year, prev_month, idx, entries,
                   block_entry, loaded, analytics, metrics>>

\* lines 362-363: open(LOG_FILE, "a"), one write
AppendToLog(r) ==
    /\ pc = "serving"
    /\ host.req[r].pc = "validated"
    /\ host' = [host EXCEPT !.log = Append(@, EntryText(r, Val(host.req[r].data))),
                            !.req[r].pc = "appended"]
    /\ UNCHANGED <<content, pc, base_year, current_year, prev_month, idx, entries,
                   block_entry, loaded, analytics, metrics>>

\* rebuild_dashboard, lines 300-303: LogParser(LOG_FILE).parse() reads the
\* whole file as it is now; the analytics are computed from what was read
ReadLog(r) ==
    /\ pc = "serving"
    /\ host.req[r].pc = "appended"
    /\ host' = [host EXCEPT !.req[r].read = host.log, !.req[r].pc = "parsed"]
    /\ UNCHANGED <<content, pc, base_year, current_year, prev_month, idx, entries,
                   block_entry, loaded, analytics, metrics>>

\* rebuild_dashboard, line 304, and lines 366-368: generate_dashboard writes
\* dashboard.html from the analytics of this request, which is answered ok
WriteDashboard(r) ==
    /\ pc = "serving"
    /\ host.req[r].pc = "parsed"
    /\ host' = [host EXCEPT
                  !.dashboard = host.req[r].read,
                  !.req[r].pc = "returned",
                  !.req[r].status =
                      Some([ok |-> TRUE, entry |-> EntryText(r, Val(host.req[r].data))])]
    /\ UNCHANGED <<content, pc, base_year, current_year, prev_month, idx, entries,
                   block_entry, loaded, analytics, metrics>>

NextHost ==
    \E r \in Requests :
        ReceiveRequest(r) \/ AppendToLog(r) \/ ReadLog(r) \/ WriteDashboard(r)

\* main(): dashboard.html is built from the log before the server starts;
\* log and dashboard hold the entries written since then
InitHost ==
    /\ host = [log |-> <<>>, dashboard |-> <<>>,
               req |-> [r \in Requests |-> IdleRequest]]
    /\ pc = "serving"
    /\ content = [year_line |-> None, blocks |-> <<EmptyBlock>>]
    /\ base_year = DEFAULT_BASE_YEAR
    /\ current_year = DEFAULT_BASE_YEAR
    /\ prev_month = None
    /\ idx = 0
    /\ entries = <<>>
    /\ block_entry = None
    /\ loaded = NotRun
    /\ analytics = NotRun
    /\ metrics = NotRun

SpecHost == InitHost /\ [][NextHost]_vars

-----------------------------------------------------------------------------
(* Claims about LogParser.parse *)

\* the single entry block of a one-block text
TheBlock == content.blocks[2]

\* the months of the dated blocks among the first n raw blocks, in order
RECURSIVE DatedMonths(_)
DatedMonths(n) ==
    IF n = 0 THEN <<>>
    ELSE LET b == content.blocks[n]
             dated == /\ b.kind = "entry" /\ b.has_day /\ b.day >= 1
                      /\ base_year \in 1..9999
         IN  IF dated THEN Append(DatedMonths(n - 1), b.month)
             ELSE DatedMonths(n - 1)

\* the number of turns of the year in a sequence of months
Turns(ms) ==
    Cardinality({j \in 2..Len(ms) : ms[j - 1] >= 10 /\ ms[j] <= 2})

\* C1: parse never raises an exception, whatever the base-year line, the
\* dates and the number of rollovers are; failures show only as dropped
\* blocks or absent fields.
C1_ParseNeverRaises == pc # "raised"

\* C2: parse folds (current_year, previous_month) over the dated blocks in
\* document order: current_year is the base year plus the number of
\* transitions from a month >= 10 to a month <= 2 among the dated blocks
\* seen so far, previous_month is the month of the last dated block, and
\* every entry carries the running year of its position.
C2_YearFold ==
    pc \in {"loop", "done", "raised"} =>
        LET ms == DatedMonths(idx)
            n == IF pc = "raised" THEN Len(ms) - 1 ELSE Len(ms)
        IN  /\ current_year = base_year + Turns(ms)
            /\ Len(entries) = n
            /\ prev_month = IF n = 0 THEN None ELSE Some(ms[n])
            /\ \A j \in 1..n :
                  /\ entries[j].date.month = ms[j]
                  /\ entries[j].date.year = base_year + Turns(SubSeq(ms, 1, j))

C2_Witness ==
    /\ pc = "done"
    /\ Len(content.blocks) = 5
    /\ [k \in 1..4 |-> content.blocks[k + 1].month] = <<11, 12, 1, 2>>
    /\ [k \in 1..4 |-> content.blocks[k + 1].day] = <<15, 15, 15, 15>>
    /\ [k \in 1..Len(entries) |-> entries[k].date.year]
         = <<base_year, base_year, base_year + 1, base_year + 1>>

\* C3 (as claimed): for every header with a time H:MM AM|PM, H any one- or
\* two-digit number, the stored hour lies in 0..23 and its 12-hour form is
\* the H:MM that was written.
C3_RoundTripAnyHour ==
    (pc = "done" /\ TheBlock.time # None /\ entries # <<>>) =>
        /\ entries[1].date.hour \in 0..23
        /\ Hour12(entries[1].date.hour) = Val(TheBlock.time).h
        /\ entries[1].date.minute = Val(TheBlock.time).mm

\* C3 (amended): every entry parsed from a header with a time has its hour
\* in 0..23 and its minute as written; when the written hour H is in 1..12
\* the 12-hour form of the stored hour is H with the marker that was written.
C3_RoundTrip12 ==
    (pc = "done" /\ TheBlock.time # None /\ entries # <<>>) =>
        LET t == Val(TheBlock.time)
            d == entries[1].date
        IN  /\ d.hour \in 0..23
            /\ d.minute = t.mm
            /\ t.h \in 1..12 => (Hour12(d.hour) = t.h /\ Marker(d.hour) = t.ampm)

C3_Witness ==
    /\ pc = "done"
    /\ TheBlock.time = Clock(12, 5, "AM")
    /\ entries # <<>>
    /\ entries[1].date.hour = 0
    /\ entries[1].date.minute = 5

\* the header's day is no day of its month in the year used, while the year
\* and the clock time are in range
DayOutOfMonth ==
    /\ pc = "done"
    /\ TheBlock.has_day
    /\ base_year \in 1..9999
    /\ TheBlock.day \notin 1..DaysInMonth(base_year, TheBlock.month)
    /\ TheBlock.time # None =>
          /\ To24Hour(Val(TheBlock.time).h, Val(TheBlock.time).ampm) \in 0..23
          /\ Val(TheBlock.time).mm \in 0..59

ClampedTo28 ==
    /\ Len(entries) = 1
    /\ entries[1].date.year = base_year
    /\ entries[1].date.month = TheBlock.month
    /\ entries[1].date.day = 28
    /\ entries[1].date.hour =
          (IF TheBlock.time = None THEN 12
           ELSE To24Hour(Val(TheBlock.time).h, Val(TheBlock.time).ampm))
    /\ entries[1].date.minute =
          (IF TheBlock.time = None THEN 0 ELSE Val(TheBlock.time).mm)

\* C4 (as claimed): whenever the day matched in a header (0..99) is not a
\* valid day of the month in the year used, the entry is kept with day 28
\* and the same year, month, hour and minute.
C4_ClampAnyDay == DayOutOfMonth => ClampedTo28

\* C4 (amended): a day greater than the number of days of the month is
\* clamped to 28 with the same year, month, hour and minute; a day of 0 is
\* rejected and the block yields no entry.
C4_ClampHighDay ==
    DayOutOfMonth => IF TheBlock.day >= 1 THEN ClampedTo28 ELSE entries = <<>>

C4_Witness ==
    /\ DayOutOfMonth
    /\ TheBlock.month = 2
    /\ TheBlock.day = 30
    /\ TheBlock.time = Clock(11, 59, "PM")
    /\ ClampedTo28

CanonicalStages == {STAGE_ORDER[i] : i \in 1..Len(STAGE_ORDER)}

\* C5: in every entry produced by parse, stage_name is unknown or one of the
\* six canonical strings, whatever casing or realm spelling the header used.
C5_StageCanonical ==
    \A j \in 1..Len(entries) :
        \/ entries[j].stage_name = None
        \/ Val(entries[j].stage_name) \in CanonicalStages

C5_Witness ==
    /\ pc = "done"
    /\ TheBlock.realm = W_CELESTIAL
    /\ TheBlock.phase = W_middle
    /\ entries # <<>>
    /\ entries[1].stage_name = Some("Celestial Middle")

\* C6: the header 'September 15, 8:53 AM - Celesital Middle (12.5%)' parses
\* to stage_name = 'Celestial Middle'.
C6_TypoNormalized ==
    ( /\ pc = "done"
      /\ TheBlock = Header(9, 15, Clock(8, 53, "AM"), W_Celesital, W_Middle, Some(1250)) )
    => /\ Len(entries) = 1
       /\ entries[1].stage_name = Some("Celestial Middle")

-----------------------------------------------------------------------------
(* Claims about the analytics *)

Analysed ==
    /\ pc \in {"analysed", "reported"}
    /\ ~analytics.empty
    /\ analytics.predictions # OverflowError

\* the dated entries in date order, as compute_analytics sees them
ValidEntries == sorted([i \in 1..Len(entries) |-> to_dict(entries[i])])

\* some entry of the dataset has a stage strictly later than STAGE_ORDER[i]
LaterStageSeen(i) ==
    \E k \in 1..Len(entries), j \in (i + 1)..Len(STAGE_ORDER) :
        entries[k].stage_name = Some(STAGE_ORDER[j])

\* C7: for every stage S and every entry list, compute_analytics marks S
\* completed if and only if the end percent of S is >= 99 or some entry of
\* the dataset has a stage strictly later than S, also when a stage was
\* skipped or S has no entries.
C7_CompletedIffLater ==
    Analysed =>
        \A i \in 1..Len(STAGE_ORDER) :
            LET st == analytics.stages[STAGE_ORDER[i]]
            IN  st.completed <=>
                    \/ st.entries > 0 /\ st.end_percent >= 9900
                    \/ LaterStageSeen(i)

\* C8: every rate emitted in the daily-rate series, as rounded to 4
\* decimals, is strictly greater than 0.
C8_RatesPositive ==
    Analysed =>
        \A i \in 1..Len(analytics.daily_rates) :
            Val(analytics.daily_rates[i].rate) > 0

\* the date-consecutive pairs of a stage whose percent increased
IncreasingPairs(se) ==
    { i \in 1..(Len(se) - 1) :
        /\ se[i].stage_percent # None
        /\ se[i + 1].stage_percent # None
        /\ Val(se[i + 1].stage_percent) > Val(se[i].stage_percent) }

\* the stage has exactly one percent-increasing pair, with no time elapsed
OnlyPairHasZeroHours(stage) ==
    LET se == StageEntries(ValidEntries, stage)
    IN  /\ Cardinality(IncreasingPairs(se)) = 1
        /\ \A i \in IncreasingPairs(se) :
              fromisoformat(Val(se[i].date)) = fromisoformat(Val(se[i + 1].date))

C10_NoDivisionByZero ==
    /\ pc \in {"analysed", "reported"} => ~analytics.raised
    /\ pc = "reported" => ~metrics.raised

-----------------------------------------------------------------------------
(* Claims about re-running and exporting *)

PlainFields == (DOMAIN ProgressionEntry) \ {"date"}

-----------------------------------------------------------------------------
(* Claims about the blocks of a text *)

\* a block that starts with a month name and whose date cannot be resolved
Undatable(b) ==
    b.kind = "entry" /\ ~(b.has_day /\ b.day >= 1 /\ base_year \in MINYEAR..MAXYEAR)

\* C14: every entry that parse returns has a date; a block whose date cannot
\* be resolved yields no entry and leaves the rollover state alone, and all
\* the blocks before and after it are still parsed into entries (a bad block
\* never aborts the batch).
C14_BadBlockIsolated ==
    (/\ pc \in {"done", "raised"}
     /\ \E k \in 2..Len(content.blocks) : Undatable(content.blocks[k])) =>
        LET ms == DatedMonths(Len(content.blocks))
        IN  /\ pc = "done"
            /\ Len(entries) = Len(ms)
            /\ \A j \in 1..Len(entries) :
                  entries[j].date # None /\ entries[j].date.month = ms[j]
            /\ current_year = base_year + Turns(ms)
            /\ prev_month = IF ms = <<>> THEN None ELSE Some(ms[Len(ms)])

\* C15: the block "September 15, 8:53 AM - Celestial Early (12.5%)" with the
\* body lines "G3 at 40%" and "5.250 Yrs or 1 Hrs 3 Min to G4" parses to the
\* date base-year-09-15 08:53, stage "Celestial Early" at 12.5, grade 3 at
\* 40.0, 5.25 years or 1 hour 3 minutes to "G4", neither a breakthrough nor
\* a prediction.
C15_ExampleA ==
    (pc = "done" /\ content.blocks[2] = ExampleA) =>
        /\ Len(entries) = 1
        /\ entries[1].date = At(base_year, 9, 15, 8, 53)
        /\ entries[1].stage_name = Some("Celestial Early")
        /\ entries[1].stage_percent = Some(1250)
        /\ entries[1].g_level = Some(3)
        /\ entries[1].g_percent = Some(4000)
        /\ entries[1].years_to_next = Some(5250)
        /\ entries[1].hours_to_next = Some(1)
        /\ entries[1].minutes_to_next = Some(3)
        /\ entries[1].next_milestone = Some(<<Grade(4)>>)
        /\ ~entries[1].is_breakthrough
        /\ ~entries[1].is_predicted

C15_Witness ==
    /\ pc = "done"
    /\ content.blocks[2] = ExampleA
    /\ Len(entries) = 1
    /\ entries[1].years_to_next # None
    /\ entries[1].next_milestone # None

\* a percent in hundredths that is unknown or within 0..100
InScale(pct) == pct = None \/ Val(pct) \in 0..10000

\* C16: in every entry produced by parse, stage_percent and g_percent are
\* each unknown or a number in 0..100.
C16_PercentInRange ==
    \A j \in 1..Len(entries) :
        InScale(entries[j].stage_percent) /\ InScale(entries[j].g_percent)

-----------------------------------------------------------------------------
(* Claims about the body extractors *)

\* the text that _parse_breakthrough scans, and the entry it has just left
ScannedText == all_text(CurrentBlock)
AfterBreakthrough == pc = "g_info"

\* the structured rules that match somewhere in the text
MatchingRules == {i \in 1..Len(BreakthroughPatterns) :
                     Matches(ScannedText, BreakthroughPatterns[i]) # {}}

\* where rule i holds its grade level and its grade percent (0: nowhere)
LevelAt == <<5, 3, 5, 3, 0>>
PercentAt == <<7, 5, 0, 0, 0>>

\* what rule i reads at its leftmost match
ReadBy(i, at) ==
    LET ps == Matches(ScannedText, BreakthroughPatterns[i])
        p == CHOOSE q \in ps : \A r \in ps : q <= r
    IN  IF at[i] = 0 THEN None ELSE Some(ScannedText[p + at[i] - 1].n)

\* C17: the first of the five structured rules, in the order of the list,
\* that matches anywhere in the block text decides the result of
\* _parse_breakthrough: is_breakthrough is true and grade level and percent
\* are those of that rule's match only, also when a rule further down the
\* list matches earlier in the text; no later rule and not the catch-all
\* changes the entry.
C17_RulePriority ==
    (AfterBreakthrough /\ MatchingRules # {}) =>
        LET i == CHOOSE r \in MatchingRules : \A q \in MatchingRules : r <= q
            e == Val(block_entry)
        IN  /\ e.is_breakthrough
            /\ e.g_level = ReadBy(i, LevelAt)
            /\ e.g_percent = ReadBy(i, PercentAt)

\* rule 2 matches on the header line, rule 1 further down: rule 1 decides
C17_Witness ==
    /\ AfterBreakthrough
    /\ CurrentBlock.tail = L_Rule2
    /\ CurrentBlock.lines = <<Line(0, L_Note, 0), Line(0, L_Rule1, 0)>>
    /\ MatchingRules = 1..5
    /\ Val(block_entry).is_breakthrough
    /\ Val(block_entry).g_level = Some(3)
    /\ Val(block_entry).g_percent = Some(4000)

\* the step that runs _parse_g_info, the text it scans, the 'G<N> at <X>%'
\* occurrences and the 'currently at X%' phrases in it
GInfoRuns == pc = "g_info" /\ pc' = "time_to_next"
GradeOccurrences == Matches(GradeText(CurrentBlock), GradeAt)
CurrentlyPhrases == Matches(GradeText(CurrentBlock), CurrentlyAt)

\* level and percent of the last occurrence
LastGradeWritten(e) ==
    LET text == GradeText(CurrentBlock)
        p == CHOOSE q \in GradeOccurrences : \A r \in GradeOccurrences : q >= r
    IN  e.g_level = Some(text[p].n) /\ e.g_percent = Some(text[p + 2].n)

\* the percent of the first 'currently at X%' phrase
CurrentlyPercent ==
    LET p == CHOOSE q \in CurrentlyPhrases : \A r \in CurrentlyPhrases : q <= r
    IN  Some(GradeText(CurrentBlock)[p + 2].n)

\* C18 (as claimed): when the text scanned by _parse_g_info holds 'G<N> at
\* <X>%' occurrences, level and percent are those of the last one, replacing
\* what breakthrough detection had set; when it holds none, a 'currently at
\* X%' phrase fills the grade percent and the level is left as it was.
C18_LastGradeOrCurrently ==
    [][GInfoRuns =>
          LET before == Val(block_entry)
              after == Val(block_entry')
          IN  /\ GradeOccurrences # {} => LastGradeWritten(after)
              /\ (GradeOccurrences = {} /\ CurrentlyPhrases # {}) =>
                    /\ after.g_percent = CurrentlyPercent
                    /\ after.g_level = before.g_level]_vars

\* C18 (amended): the last 'G<N> at <X>%' occurrence of the scanned text
\* sets level and percent, replacing what breakthrough detection had set;
\* when there is none, a 'currently at X%' phrase fills the grade percent
\* only if breakthrough detection left the percent unset, and in every
\* other case level and percent stay as they were.
C18_LastGradeOrGuardedCurrently ==
    [][GInfoRuns =>
          LET before == Val(block_entry)
              after == Val(block_entry')
          IN  /\ GradeOccurrences # {} => LastGradeWritten(after)
              /\ GradeOccurrences = {} =>
                    /\ after.g_level = before.g_level
                    /\ after.g_percent =
                          IF before.g_percent = None /\ CurrentlyPhrases # {}
                          THEN CurrentlyPercent ELSE before.g_percent]_vars

\* a breakthrough on the header line set 10%, the body says "currently at
\* 30%": the percent stays 10%
C18_Witness ==
    /\ pc = "time_to_next"
    /\ CurrentBlock.tail = L_Rule2
    /\ CurrentBlock.lines = <<Line(0, L_Currently, 0)>>
    /\ GradeOccurrences = {}
    /\ CurrentlyPhrases # {}
    /\ Val(block_entry).g_level = Some(7)
    /\ Val(block_entry).g_percent = Some(1000)

\* the places of the block text where "bt to" or "breakthrough to" is
\* followed by more text
BreakthroughPhrases ==
    {p \in 1..(Len(ScannedText) - 2) :
        /\ ScannedText[p].k = "word" /\ ScannedText[p].s \in Slot.bt
        /\ ScannedText[p + 1].k = "word" /\ ScannedText[p + 1].s \in Slot.to}

\* C19: a block with a "breakthrough to ..." or "bt to ..." phrase that none
\* of the five structured rules matches gets is_breakthrough = true while
\* breakthrough detection sets neither grade level nor grade percent; a
\* block without any such phrase keeps is_breakthrough = false.
C19_CatchAll ==
    AfterBreakthrough =>
        LET e == Val(block_entry)
        IN  /\ (BreakthroughPhrases # {} /\ MatchingRules = {}) =>
                  (e.is_breakthrough /\ e.g_level = None /\ e.g_percent = None)
            /\ BreakthroughPhrases = {} => ~e.is_breakthrough

\* "bt to Celesital Early G6 at 15%": the misspelt realm fits no rule
C19_Witness ==
    /\ AfterBreakthrough
    /\ CurrentBlock.tail = <<>>
    /\ CurrentBlock.lines = <<Line(0, L_Typo, 0)>>
    /\ BreakthroughPhrases = {1}
    /\ MatchingRules = {}
    /\ Val(block_entry).is_breakthrough
    /\ Val(block_entry).g_level = None

\* the lines written below the header of the one block, those that are not
\* blank, and the k-th of them
WrittenLines == content.blocks[2].lines
NonBlank == {j \in 1..Len(WrittenLines) : WrittenLines[j].toks # <<>>}
KthNonBlank(k) == CHOOSE j \in NonBlank : Cardinality({i \in NonBlank : i <= j}) = k

-----------------------------------------------------------------------------
(* Claims about the derived aggregates *)

\* whole days from the date-earliest to the date-latest entry of a stage
WholeDays(se) ==
    DaysBetween(fromisoformat(Val(se[1].date)), fromisoformat(Val(se[Len(se)].date)))

\* the stage's days are max(whole days, 1) and its daily rate is
\* (end_percent - start_percent) / days, to 4 decimals
DaysAndRate(st, se) ==
    /\ st.days = (IF WholeDays(se) > 1 THEN WholeDays(se) ELSE 1)
    /\ st.daily_rate = Some(Round((st.end_percent - st.start_percent) * 100, st.days))

\* C23 (as claimed): for every stage with an entry, days = max(whole days
\* between its date-earliest and date-latest entries, 1), daily_rate =
\* (end_percent - start_percent) / days, and start_percent and end_percent
\* are the stage percents of those two entries.
C23_StageRate ==
    Analysed =>
        \A i \in 1..Len(STAGE_ORDER) :
            LET se == StageEntries(ValidEntries, STAGE_ORDER[i])
                st == analytics.stages[STAGE_ORDER[i]]
            IN  se # <<>> =>
                    /\ DaysAndRate(st, se)
                    /\ Some(st.start_percent) = se[1].stage_percent
                    /\ Some(st.end_percent) = se[Len(se)].stage_percent

\* C23 (amended): the same, where the stage percent of an entry that
\* carries none counts as 0.
C23_StageRateUnknownAsZero ==
    Analysed =>
        \A i \in 1..Len(STAGE_ORDER) :
            LET se == StageEntries(ValidEntries, STAGE_ORDER[i])
                st == analytics.stages[STAGE_ORDER[i]]
            IN  se # <<>> =>
                    /\ DaysAndRate(st, se)
                    /\ st.start_percent =
                         (IF se[1].stage_percent = None THEN 0
                          ELSE Val(se[1].stage_percent))
                    /\ st.end_percent =
                         (IF se[Len(se)].stage_percent = None THEN 0
                          ELSE Val(se[Len(se)].stage_percent))

C23_Witness ==
    /\ Analysed
    /\ entries = << Entry(D0, Some("Celestial Early"), None),
                    Entry(D0, Some("Celestial Early"), Some(1500)) >>
    /\ analytics.stages["Celestial Early"].days = 1
    /\ analytics.stages["Celestial Early"].start_percent = 0
    /\ analytics.stages["Celestial Early"].daily_rate = Some(150000)

\* the elapsed minutes and the percent gained, summed over the
\* percent-increasing pairs among the first k date-consecutive pairs of se
RECURSIVE PairTotals(_, _)
PairTotals(se, k) ==
    IF k = 0 THEN [hrs |-> 0, pct |-> 0]
    ELSE LET t == PairTotals(se, k - 1)
         IN  IF k \in IncreasingPairs(se)
             THEN [hrs |-> t.hrs + Elapsed(se[k], se[k + 1]),
                   pct |-> t.pct + Val(se[k + 1].stage_percent)
                                 - Val(se[k].stage_percent)]
             ELSE t

\* the stages that hold a percent-increasing pair, and their hours per
\* percent (to 2 decimals) over exactly those pairs
EfficiencyOverIncreasingPairs ==
    \A i \in 1..Len(STAGE_ORDER) :
        LET se == StageEntries(ValidEntries, STAGE_ORDER[i])
            t == PairTotals(se, Len(se) - 1)
        IN  IF Len(se) < 2 \/ IncreasingPairs(se) = {}
            THEN STAGE_ORDER[i] \notin DOMAIN analytics.efficiency
            ELSE /\ STAGE_ORDER[i] \in DOMAIN analytics.efficiency
                 /\ analytics.efficiency[STAGE_ORDER[i]].hours_per_pct
                        = Some(Round(t.hrs * 500, 3 * t.pct))

RatedPairs(v) ==
    { i \in 1..(Len(v) - 1) :
        /\ v[i].stage_name = v[i + 1].stage_name
        /\ v[i].stage_percent # None
        /\ v[i + 1].stage_percent # None
        /\ Elapsed(v[i], v[i + 1]) > 0
        /\ Val(v[i + 1].stage_percent) > Val(v[i].stage_percent) }

PredictionWindow ==
    LET v == ValidEntries
        last == v[Len(v)]
    IN  IF last.stage_name = None THEN <<>>
        ELSE LET se == StageEntries(v, Val(last.stage_name))
             IN  SubSeq(se, Len(se) - (IF Len(se) < 10 THEN Len(se) ELSE 10) + 1, Len(se))

\* the rate over the window is computable and > 0
WindowRatePositive(w) ==
    /\ Len(w) >= 2
    /\ w[1].stage_percent # None
    /\ w[Len(w)].stage_percent # None
    /\ Elapsed(w[1], w[Len(w)]) > 0
    /\ Val(w[Len(w)].stage_percent) > Val(w[1].stage_percent)

\* the prediction is non-empty exactly when the window's rate is > 0, and
\* its date is then the window's end plus (100 - end percent) / rate days
PredictionWhenRatePositive ==
    LET w == PredictionWindow
    IN  IF WindowRatePositive(w)
        THEN /\ analytics.predictions # NoPrediction
             /\ analytics.predictions.projected_date =
                    ProjectedDay(fromisoformat(Val(w[Len(w)].date)),
                                 10000 - Val(w[Len(w)].stage_percent),
                                 Elapsed(w[1], w[Len(w)]),
                                 Val(w[Len(w)].stage_percent) - Val(w[1].stage_percent))
        ELSE analytics.predictions = NoPrediction

\* C22: compute_analytics returns a non-empty prediction exactly when the
\* date-latest entry has a known stage, that stage has at least 2 entries
\* and the rate from the first and last entries of the window is > 0; the
\* projected date is then the window's end date plus (100 - window end
\* percent) / rate days; in every other case the prediction is empty.
C22_Prediction ==
    (pc \in {"analysed", "reported"} /\ ~analytics.empty) =>
        /\ analytics.predictions # OverflowError
        /\ PredictionWhenRatePositive

\* the prediction of every call that returned is as C22 says
C22_PredictionOfReturningCalls == Analysed => PredictionWhenRatePositive

\* a call of compute_analytics that raised OverflowError
C22_ProjectionOverflows ==
    /\ pc = "analysed"
    /\ entries = << Entry(D0, Some("Celestial Early"), Some(1000)),
                    Entry(DNext, Some("Celestial Early"), Some(1001)) >>
    /\ analytics.predictions = OverflowError

\* C30: the efficiency map of compute_analytics and the one of
\* ProgressionAnalyzer.get_efficiency_metrics, computed from the same
\* entries, hold the same stages with the same hours per percent, also with
\* entries at 0% and pairs with zero elapsed hours.
C30_SameEfficiency ==
    (pc = "reported" /\ ~analytics.empty) =>
        /\ ~metrics.raised
        /\ DOMAIN metrics.efficiency_by_stage = DOMAIN analytics.efficiency
        /\ \A s \in DOMAIN analytics.efficiency :
               metrics.efficiency_by_stage[s].hours_per_percent
                   = analytics.efficiency[s].hours_per_pct

\* the two maps differ on a stage that starts at 0%
C30_ZeroPercentDiffers ==
    /\ pc = "reported"
    /\ entries = << Entry(D0, Some("Celestial Early"), Some(0)),
                    Entry(D2, Some("Celestial Early"), Some(1500)) >>
    /\ "Celestial Early" \in DOMAIN analytics.efficiency
    /\ "Celestial Early" \notin DOMAIN metrics.efficiency_by_stage

-----------------------------------------------------------------------------
(* Claims about the time to the next milestone *)

AfterTimeToNext == pc = "notes"

\* where the text holds '<digits> <hours-unit>', '<digits> <minutes-unit>'
\* and '<N> and <M> <minutes-unit>'
HoursWritten == Matches(ScannedText, HoursPattern)
MinutesWritten == Matches(ScannedText, MinutesPattern)
AndWritten == Matches(ScannedText, AndPattern)

Leftmost(ps) == CHOOSE p \in ps : \A q \in ps : p <= q

\* the number that ends token p of the scanned text
NumberAt(p) ==
    LET t == ScannedText[p]
    IN  IF t.k = "dec" THEN t.n % 1000 ELSE t.n

\* the minutes of the leftmost '<digits> <minutes-unit>', if any
MinutesLabelled ==
    IF MinutesWritten = {} THEN None ELSE Some(NumberAt(Leftmost(MinutesWritten)))

\* C26: the '<N> and <M> <minutes-unit>' form is used only when no
\* hours-unit match set hours_to_next, and then sets hours_to_next = N and
\* minutes_to_next = M; when an hours-unit value was found, hours_to_next
\* and minutes_to_next keep the unit-labelled values.
C26_AndFormOnlyWithoutHours ==
    AfterTimeToNext =>
        LET e == Val(block_entry)
        IN  IF HoursWritten # {}
            THEN /\ e.hours_to_next = Some(NumberAt(Leftmost(HoursWritten)))
                 /\ e.minutes_to_next = MinutesLabelled
            ELSE IF AndWritten # {}
            THEN /\ e.hours_to_next = Some(NumberAt(Leftmost(AndWritten)))
                 /\ e.minutes_to_next = Some(NumberAt(Leftmost(AndWritten) + 2))
            ELSE /\ e.hours_to_next = None
                 /\ e.minutes_to_next = MinutesLabelled

\* a text with both forms, and a text with the 'and' form alone
C26_Witness ==
    /\ AfterTimeToNext
    /\ \/ /\ HoursWritten # {}
          /\ AndWritten # {}
          /\ Leftmost(AndWritten) < Leftmost(HoursWritten)
          /\ Val(block_entry).hours_to_next = Some(1)
          /\ Val(block_entry).minutes_to_next = Some(27)
       \/ /\ HoursWritten = {}
          /\ AndWritten # {}
          /\ Val(block_entry).hours_to_next = Some(157)
          /\ Val(block_entry).minutes_to_next = Some(27)

-----------------------------------------------------------------------------
(* Claims about clamping and the year rollover *)

\* the dated blocks among the first n raw blocks, in order
RECURSIVE DatedBlocks(_)
DatedBlocks(n) ==
    IF n = 0 THEN <<>>
    ELSE LET b == content.blocks[n]
             dated == /\ b.kind = "entry" /\ b.has_day /\ b.day >= 1
                      /\ base_year \in 1..9999
         IN  IF dated THEN Append(DatedBlocks(n - 1), b) ELSE DatedBlocks(n - 1)

\* the day written in block b as a day of year y: itself when the month of
\* that year has it, 28 otherwise
DayIn(y, b) ==
    IF b.day <= (IF b.month = 2
                 THEN (IF (y % 4 = 0) /\ ((y % 100 # 0) \/ (y % 400 = 0)) THEN 29 ELSE 28)
                 ELSE IF b.month \in {4, 6, 9, 11} THEN 30 ELSE 31)
    THEN b.day ELSE 28

\* C29: day clamping is decided against the year the entry finally carries:
\* an entry that a rollover moves to the next year is stored with its day
\* valid for that year ('February 29' directly after a December entry is
\* February 29 of Y+1 when Y+1 is a leap year, February 28 of Y+1 when not).
C29_ClampAgainstFinalYear ==
    pc \in {"loop", "done", "raised"} =>
        LET bs == DatedBlocks(idx)
            ms == [j \in 1..Len(bs) |-> bs[j].month]
        IN  \A j \in 2..Len(bs) :
                (ms[j - 1] >= 10 /\ ms[j] <= 2) =>
                    /\ j <= Len(entries)
                    /\ entries[j].date.year = base_year + Turns(SubSeq(ms, 1, j))
                    /\ entries[j].date.day = DayIn(entries[j].date.year, bs[j])

\* 'February 29' after December with a leap year following: stored as the 28th
C29_LeapDayLost ==
    /\ pc = "done"
    /\ base_year = 2023
    /\ Len(content.blocks) = 3
    /\ content.blocks[2].month = 12 /\ content.blocks[2].day = 15
    /\ content.blocks[3].month = 2 /\ content.blocks[3].day = 29
    /\ Len(entries) = 2
    /\ entries[2].date.year = 2024
    /\ entries[2].date.day = 28

-----------------------------------------------------------------------------
(* Claims about the split into blocks *)

\* the segments of the text where a month name is followed by whitespace
\* and a number, in document order
RECURSIVE MonthAndNumber(_)
MonthAndNumber(text) ==
    IF text = <<>> THEN <<>>
    ELSE LET rest == MonthAndNumber(SubSeq(text, 1, Len(text) - 1))
             last == text[Len(text)]
         IN  IF last.item.k = "date" THEN Append(rest, last.item) ELSE rest

\* the pieces of the split that are more than whitespace, but for the text
\* before the first split position
NewBlocks ==
    SelectSeq(Tail(content.blocks), LAMBDA b : b.kind # "empty")

\* the day an occurrence holds: the first two digits of its number
DayWritten(item) ==
    IF item.number < 100 THEN item.number
    ELSE IF item.number < 1000 THEN item.number \div 10
    ELSE item.number \div 100

\* C21: parse starts a new block at every occurrence of a month name
\* followed by whitespace and a one- or two-digit number, wherever it is in
\* the text (at a line start, after other words, glued to a word), and the
\* month name belongs to the new block; text that does not begin with a
\* month name yields no entry; the entries are in document order: they are
\* those of the occurrences whose number is on the line of the month name.
C21_BlockAtEveryMonthAndDay ==
    pc \in {"start", "loop", "done"} =>
        LET occ == MonthAndNumber(content.text)
            dated == SelectSeq(occ, LAMBDA o : o.sep = "space")
        IN  /\ Len(NewBlocks) = Len(occ)
            /\ \A k \in 1..Len(occ) :
                   /\ NewBlocks[k].kind = "entry"
                   /\ NewBlocks[k].month = occ[k].month
            /\ content.blocks[1].kind = "entry" =>
                   (content.text # <<>> /\ content.text[1].item.k = "month")
            /\ pc = "done" =>
                   /\ Len(entries) = Len(dated)
                   /\ \A k \in 1..Len(dated) :
                          /\ entries[k].date.month = dated[k].month
                          /\ entries[k].date.day = DayWritten(dated[k])

\* "farming March 5 ...", a newline, "January 2025 ...": two entries, in the
\* order of the text
C21_Witness ==
    /\ pc = "done"
    /\ content.text = << [lead |-> Glued, item |-> StrayWords],
                         [lead |-> Space, item |-> DateItem(3, "space", 5)],
                         [lead |-> Glued, item |-> DateItem(1, "space", 2025)] >>
    /\ Len(entries) = 2
    /\ entries[1].date.month = 3
    /\ entries[2].date.month = 1

-----------------------------------------------------------------------------
(* Claims about the add-entry requests *)

\* the field is absent from the body, or its text holds nothing but blanks
MissingOrBlank(data, key) ==
    \/ data[key] = None
    \/ /\ Val(data[key]) # NotText
       /\ Val(data[key]).toks = <<>>

\* both fields are texts that hold something
CarriesBoth(data) ==
    \A key \in {"realm_phase", "overall_pct"} :
        /\ data[key] # None
        /\ Val(data[key]) # NotText
        /\ Val(data[key]).toks # <<>>

\* the blocks request r has appended to the log
AppendedBy(r) == {k \in 1..Len(host.log) : host.log[k].by = r}

\* request r has read the log for a rebuild, or written dashboard.html
Regenerating(r) ==
    \/ host.req[r].pc = "parsed"
    \/ host.req[r].read # <<>>
    \/ /\ host.req[r].status # None
       /\ "ok" \in DOMAIN Val(host.req[r].status)

\* C28: a request whose realm_phase or overall_pct is missing or blank is
\* answered with status 400, appends nothing and regenerates nothing; the
\* log is appended to only by requests that carry both fields, which write
\* exactly one block, at the append step
C28_RequiredFields ==
    pc = "serving" =>
        \A r \in Requests :
            LET q == host.req[r]
            IN  /\ (q.data # None
                    /\ (MissingOrBlank(Val(q.data), "realm_phase")
                        \/ MissingOrBlank(Val(q.data), "overall_pct")))
                   => /\ q.pc = "returned"
                      /\ q.status # None
                      /\ "code" \in DOMAIN Val(q.status)
                      /\ Val(q.status).code = 400
                      /\ AppendedBy(r) = {}
                      /\ ~Regenerating(r)
                /\ AppendedBy(r) # {} => CarriesBoth(Val(q.data))
                /\ Cardinality(AppendedBy(r)) =
                       IF q.pc \in {"appended", "parsed"}
                          \/ (q.pc = "returned" /\ "ok" \in DOMAIN Val(q.status))
                       THEN 1 ELSE 0

\* neither required field of the body is a value that is not a text
TextFields(data) ==
    \A key \in {"realm_phase", "overall_pct"} :
        data[key] = None \/ Val(data[key]) # NotText

\* of the bodies whose required fields are texts or absent, those with a
\* missing or blank field are answered 400; no refused or failed request
\* appends or regenerates
C28_RequiredTextFields ==
    pc = "serving" =>
        \A r \in Requests :
            LET q == host.req[r]
            IN  /\ (q.data # None /\ TextFields(Val(q.data))
                    /\ (MissingOrBlank(Val(q.data), "realm_phase")
                        \/ MissingOrBlank(Val(q.data), "overall_pct")))
                   => /\ q.pc = "returned"
                      /\ q.status \in
                             {Some([code |-> BAD_REQUEST, error |-> "Realm Phase is required"]),
                              Some([code |-> BAD_REQUEST, error |-> "Overall % is required"])}
                /\ (q.data # None /\ ~CarriesBoth(Val(q.data)))
                   => /\ AppendedBy(r) = {}
                      /\ ~Regenerating(r)

\* realm_phase is missing and overall_pct is a JSON number: .strip() raises
\* before the required fields are tested, and the answer is not the 400
C28_NumberRaises ==
    /\ pc = "serving"
    /\ \E r \in Requests :
          /\ host.req[r].data # None
          /\ MissingOrBlank(Val(host.req[r].data), "realm_phase")
          /\ host.req[r].status = Some(AttributeError)

\* every request has been answered, each with ok
AllReturnedOk ==
    \A r \in Requests :
        /\ host.req[r].pc = "returned"
        /\ "ok" \in DOMAIN Val(host.req[r].status)

\* C27: the append and the regenerate steps of different requests do not
\* interleave: once all requests have returned ok, dashboard.html is the
\* one generated from the log that holds every appended entry
C27_RebuildsSerialized ==
    (pc = "serving" /\ AllReturnedOk) => host.dashboard = host.log

\* no lock orders the steps: every request was answered ok, yet
\* dashboard.html was written last by a request that read the log before
\* the other appended, and lacks that entry
C27_StaleDashboard ==
    /\ pc = "serving"
    /\ AllReturnedOk
    /\ Len(host.log) = MaxRequests
    /\ Len(host.dashboard) < Len(host.log)

\* the second half of C27: no rebuild replaces dashboard.html by one
\* generated from an earlier state of the log (refuted by the same runs)
C27_NoOverwriteByEarlier ==
    [][pc = "serving" => Len(host.dashboard') >= Len(host.dashboard)]_vars

====
